---------------------------- MODULE Spec2Model ----------------------------
(***************************************************************************)
(* A model of modular-motion's keyframe stager (core/mobject/mobject.py,   *)
(* core/mobject/custom_mobject_prop.py, core/stage.py), of its action      *)
(* segmentation and retargeting engine (core/mobject/action.py) and of its *)
(* data-path rendering (core/utils.py).  The Timeline Host (Blender's bpy) *)
(* is modelled at the interface the code calls: property assignment and    *)
(* keyframe insertion.                                                     *)
(***************************************************************************)
EXTENDS Integers, Naturals, Sequences, FiniteSets, TLC

(***************************************************************************)
(* Bounds of the stager model                                              *)
(***************************************************************************)
\* Stage.curr_time is not advanced beyond this frame.
MaxTime == 2
\* A Mobject's _planned_keyframes holds at most this many entries.
MaxQueue == 4
\* Stage.play receives at most this many animatables.
MaxAnims == 2
\* A script makes at most this many calls on the stage and its Mobjects.
MaxCalls == 4

\* PlannedKeyframe.value None: "the keyframe value will be the current value".
None == -1

Mobjects == {"A", "B"}
PropPaths == {<<"location">>, <<"scale">>}
Values == {1, 2}
InitialValue == 0
Durations == {1, 2}

\* custom_properties of every Mobject: name -> e_prop_paths and is_animatable.
\* The first element of an ExtendedPropPath is the unprefixed object name.
CustomProperties ==
    [ pose   |-> [e_prop_paths |-> << <<"", "location">>, <<"", "scale">> >>,
                  is_animatable |-> TRUE],
      frozen |-> [e_prop_paths |-> << <<"", "scale">> >>,
                  is_animatable |-> FALSE] ]

VARIABLES
    curr_time,          \* Stage.curr_time
    constructed,        \* the Mobjects constructed so far
    in_animate_mode,    \* Mobject._in_animate_mode, per Mobject
    planned_keyframes,  \* Mobject._planned_keyframes, per Mobject
    prop_value,         \* Timeline Host: live property value, per object and path
    fcurves,            \* Timeline Host: keyframes <<frame, value>>, per object and path
    host_calls,         \* the Timeline Host calls made by the latest handler, in order
    last,               \* the latest handler: its name, arguments and outcome
    ncalls,             \* number of handler calls made so far
    base_fcurves,       \* anims_data: the fcurves of the objects in mobject.base_coll
    width,              \* generate_actions' width argument
    actions,            \* BasedMobject.actions, the list generate_actions returned
    target,             \* Timeline Host: animation data and live values of the clone
    phase,              \* "fresh", "constructed", "failed", "applied", "reapplied"
                        \* or "played"
    prefix_text         \* bpy.data.texts["_M.reserved_prefixes"]: the lines' bodies

stagerVars == <<curr_time, constructed, in_animate_mode, planned_keyframes,
               prop_value, fcurves>>

actionVars == <<base_fcurves, width, actions, target, phase, prefix_text>>

vars == <<stagerVars, host_calls, last, ncalls, actionVars>>

(***************************************************************************)
(* Helpers                                                                 *)
(***************************************************************************)
Tail1(s) == SubSeq(s, 2, Len(s))

RECURSIVE SelectType(_, _)
\* filter(lambda k: k["type"] == type, planned_keyframes)
SelectType(ks, type) ==
    IF ks = <<>> THEN <<>>
    ELSE IF Head(ks).type = type
         THEN <<Head(ks)>> \o SelectType(Tail(ks), type)
         ELSE SelectType(Tail(ks), type)

(***************************************************************************)
(* Timeline Host interface (core/utils.py)                                 *)
(***************************************************************************)
\* A host state: live values, keyframes and the calls made so far.
Host(values, curves, calls) == [values |-> values, curves |-> curves, calls |-> calls]

HostCall(call, obj, path, frame, value, type, anim) ==
    [call |-> call, object |-> obj, prop_path |-> path, frame |-> frame,
     value |-> value, type |-> type, anim |-> anim]

\* set_value_by_prop_path(obj, prop_path, value): assigns the live property.
set_value_by_prop_path(h, obj, path, value, type, anim) ==
    Host([h.values EXCEPT ![obj][path] = value],
         h.curves,
         Append(h.calls, HostCall("set_value", obj, path, None, value, type, anim)))

\* keyframe_insert(obj, path, frame): the host snapshots the property's current
\* value at `frame`; a keyframe already at `frame` is replaced.
keyframe_insert(h, obj, path, frame, type, anim) ==
    LET v == h.values[obj][path]
    IN  Host(h.values,
             [h.curves EXCEPT ![obj][path] =
                 {k \in @ : k[1] # frame} \cup {<<frame, v>>}],
             Append(h.calls, HostCall("keyframe_insert", obj, path, frame, v, type, anim)))


(***************************************************************************)
(* Two-phase keyframe stager (core/mobject/mobject.py, core/stage.py)      *)
(***************************************************************************)
\* bpy.data.objects[self.prefix + "." + obj_name]: the object a Mobject addresses.
TargetObject(m, obj_name) == <<m, obj_name>>

Objects == {TargetObject(m, "") : m \in Mobjects}

PlannedKeyframe(obj, type, path, value) ==
    [object |-> obj, type |-> type, prop_path |-> path, value |-> value]

\* Mutant of StagedPair: the 'end' entry is appended before the 'start' entry.
StagedPairEndFirst(obj, path, value) ==
    << PlannedKeyframe(obj, "end", path, value),
       PlannedKeyframe(obj, "start", path, None) >>

\* The two entries one staged property change appends, in the order of the appends.
StagedPair(obj, path, value) ==
    << PlannedKeyframe(obj, "start", path, None),
       PlannedKeyframe(obj, "end", path, value) >>

\* Mutant of WriteImmediate: the value is assigned before the first keyframe.
WriteImmediateAssignFirst(h, obj, path, value, t) ==
    LET h1 == set_value_by_prop_path(h, obj, path, value, "direct", 0)
        h2 == keyframe_insert(h1, obj, path, t - 1, "direct", 0)
    IN  keyframe_insert(h2, obj, path, t, "direct", 0)

\* Direct mode: keyframe at curr_time - 1, assignment, keyframe at curr_time.
WriteImmediate(h, obj, path, value, t) ==
    LET h1 == keyframe_insert(h, obj, path, t - 1, "direct", 0)
        h2 == set_value_by_prop_path(h1, obj, path, value, "direct", 0)
    IN  keyframe_insert(h2, obj, path, t, "direct", 0)

Last(op, m, path, value, args, duration, ret, raised, staged) ==
    [op |-> op, mobject |-> m, prop_path |-> path, value |-> value,
     args |-> args, duration |-> duration, ret |-> ret, raised |-> raised,
     staged |-> staged, time |-> curr_time]

NoHost == Host(prop_value, fcurves, <<>>)

\* A handler call is counted before it runs.
Call ==
    /\ ncalls < MaxCalls
    /\ ncalls' = ncalls + 1
    /\ UNCHANGED actionVars

Commit(h) ==
    /\ prop_value' = h.values
    /\ fcurves' = h.curves
    /\ host_calls' = h.calls

\* Mutant of ModeAfterAnimate: the access toggles the mode.
ModeAfterAnimateToggled(mode) == ~mode

\* self._in_animate_mode = True
ModeAfterAnimate(mode) == TRUE

\* Mobject.animate (property): enables animate mode.
Animate(m) ==
    /\ Call
    /\ m \in constructed
    /\ in_animate_mode' = [in_animate_mode EXCEPT ![m] = ModeAfterAnimate(@)]
    /\ Commit(NoHost)
    /\ last' = Last("animate", m, <<>>, None, <<>>, 0, <<>>, "", in_animate_mode[m])
    /\ UNCHANGED <<curr_time, constructed, planned_keyframes>>

\* Mobject.dump_planned_keyframes: returns the queue, empties it, leaves animate mode.
\* Mutant of DumpedQueue: the first staged entry is not returned.
DumpedAllButFirst(q) == Tail1(q)

DumpedQueue(q) == q

\* Mutant of ClearedQueue: the queue is not emptied.
KeptQueue(q) == q

ClearedQueue(q) == <<>>
ModeAfterDump(mode) == FALSE

DumpPlannedKeyframes(m) ==
    /\ Call
    /\ m \in constructed
    /\ planned_keyframes' = [planned_keyframes EXCEPT ![m] = ClearedQueue(@)]
    /\ in_animate_mode' = [in_animate_mode EXCEPT ![m] = ModeAfterDump(@)]
    /\ Commit(NoHost)
    /\ last' = Last("dump_planned_keyframes", m, <<>>, None, <<>>, 0,
                    DumpedQueue(planned_keyframes[m]), "", in_animate_mode[m])
    /\ UNCHANGED <<curr_time, constructed>>

\* Mobject.set_prop_value(obj_name, prop_path, value)
SetPropValue(m, path, value) ==
    LET obj == TargetObject(m, "")
    IN  /\ Call
        /\ m \in constructed
        /\ last' = Last("set_prop_value", m, path, value, <<>>, 0, <<>>, "",
                        in_animate_mode[m])
        /\ IF in_animate_mode[m]
           THEN /\ Len(planned_keyframes[m]) + 2 <= MaxQueue
                /\ planned_keyframes' =
                       [planned_keyframes EXCEPT ![m] = @ \o StagedPair(obj, path, value)]
                /\ Commit(NoHost)
           ELSE /\ Commit(WriteImmediate(NoHost, obj, path, value, curr_time))
                /\ UNCHANGED planned_keyframes
        /\ UNCHANGED <<curr_time, constructed, in_animate_mode>>

RECURSIVE SimpleSetValueAlwaysDirect(_, _, _, _, _, _)
\* Mutant of SimpleSetValue: the values are written at once, whatever the mode.
SimpleSetValueAlwaysDirect(st, m, e_prop_paths, value, animate, t) ==
    IF e_prop_paths = <<>> THEN st
    ELSE LET e == Head(e_prop_paths)
             st1 == [st EXCEPT !.host = WriteImmediate(@, TargetObject(m, e[1]),
                                                       Tail1(e), value, t)]
         IN  SimpleSetValueAlwaysDirect(st1, m, Tail(e_prop_paths), value, animate, t)

RECURSIVE SimpleSetValue(_, _, _, _, _, _)
\* SimpleCustomMobjectProperty.set_value without mappings (x = value): one pass
\* over e_prop_paths; st = [planned |-> list returned, host |-> host state].
SimpleSetValue(st, m, e_prop_paths, value, animate, t) ==
    IF e_prop_paths = <<>> THEN st
    ELSE LET e == Head(e_prop_paths)
             obj == TargetObject(m, e[1])
             path == Tail1(e)
             st1 == IF animate
                    THEN [st EXCEPT !.planned = @ \o StagedPair(obj, path, value)]
                    ELSE [st EXCEPT !.host = WriteImmediate(@, obj, path, value, t)]
         IN  SimpleSetValue(st1, m, Tail(e_prop_paths), value, animate, t)

\* Mutant of set_animate_mode_raises: is_animatable is not looked at.
SetAnimateModeNeverRaises(prop) == FALSE

\* CustomMobjectProperty.set_animate_mode raises CustomPropertyUnanimatable, before
\* it changes anything, if and only if the property is not animatable.
set_animate_mode_raises(prop) == ~prop.is_animatable

\* Mobject.customize(property, value)
Customize(m, name, value) ==
    LET prop == CustomProperties[name]
        staged == in_animate_mode[m]
        res == SimpleSetValue([planned |-> <<>>, host |-> NoHost], m,
                              prop.e_prop_paths, value, staged, curr_time)
    IN  IF staged /\ set_animate_mode_raises(prop)
        THEN \* prop.set_animate_mode(True) raises: nothing was changed yet
             /\ Call
             /\ m \in constructed
             /\ last' = Last("customize", m, <<name>>, value, <<>>, 0, <<>>,
                             "CustomPropertyUnanimatable", staged)
             /\ Commit(NoHost)
             /\ UNCHANGED <<curr_time, constructed, in_animate_mode, planned_keyframes>>
        ELSE /\ Call
             /\ m \in constructed
             /\ Len(planned_keyframes[m]) + Len(res.planned) <= MaxQueue
             /\ planned_keyframes' = [planned_keyframes EXCEPT ![m] = @ \o res.planned]
             /\ Commit(res.host)
             /\ last' = Last("customize", m, <<name>>, value, <<>>, 0, <<>>, "", staged)
             /\ UNCHANGED <<curr_time, constructed, in_animate_mode>>


\* Mutant of PlayTypes: the 'end' entries are written first.
PlayTypesEndFirst == <<"end", "start">>

\* Stage.play: the order in which the two kinds of entries are written.
PlayTypes == <<"start", "end">>

RECURSIVE WriteKeyframes(_, _, _, _)
\* Stage.play, inner loop: the entries of one kind, in staged order; an entry
\* with a value assigns it before its keyframe is inserted.
WriteKeyframes(h, ks, frame, anim) ==
    IF ks = <<>> THEN h
    ELSE LET k == Head(ks)
             h1 == IF k.value # None
                   THEN set_value_by_prop_path(h, k.object, k.prop_path, k.value,
                                               k.type, anim)
                   ELSE h
             h2 == keyframe_insert(h1, k.object, k.prop_path, frame, k.type, anim)
         IN  WriteKeyframes(h2, Tail(ks), frame, anim)

\* Mutant of PlayFrame: an 'end' entry is written at `duration`, not at t + duration.
PlayFrameAbsoluteEnd(type, t, duration) == IF type = "start" THEN t ELSE duration

\* Stage.play: the frame an entry of kind `type` is written at.
PlayFrame(type, t, duration) == IF type = "start" THEN t ELSE t + duration

RECURSIVE WriteTypes(_, _, _, _, _, _)
\* Stage.play, loop `for type in ["start", "end"]` over one dumped list.
WriteTypes(h, planned, types, t, duration, anim) ==
    IF types = <<>> THEN h
    ELSE LET type == Head(types)
             h1 == WriteKeyframes(h, SelectType(planned, type),
                                  PlayFrame(type, t, duration), anim)
         IN  WriteTypes(h1, planned, Tail(types), t, duration, anim)

RECURSIVE PlayAnimsLastFirst(_, _, _, _, _)
\* Mutant of PlayAnims: the animatables are processed from the last to the first.
PlayAnimsLastFirst(st, args, i, t, duration) ==
    IF i > Len(args) THEN st
    ELSE LET a == Len(args) + 1 - i
             m == args[a]
             planned == DumpedQueue(st.queues[m])
             st1 == [queues |-> [st.queues EXCEPT ![m] = ClearedQueue(@)],
                     modes  |-> [st.modes EXCEPT ![m] = ModeAfterDump(@)],
                     host   |-> WriteTypes(st.host, planned, PlayTypes, t, duration, a),
                     dumped |-> Append(st.dumped, planned)]
         IN  PlayAnimsLastFirst(st1, args, i + 1, t, duration)

RECURSIVE PlayAnims(_, _, _, _, _)
\* Stage.play, loop `for anim in args`; st = [queues, modes, host, dumped], where
\* dumped[i] is the list the i-th dump_planned_keyframes call returned.
PlayAnims(st, args, i, t, duration) ==
    IF i > Len(args) THEN st
    ELSE LET m == args[i]
             planned == DumpedQueue(st.queues[m])
             st1 == [queues |-> [st.queues EXCEPT ![m] = ClearedQueue(@)],
                     modes  |-> [st.modes EXCEPT ![m] = ModeAfterDump(@)],
                     host   |-> WriteTypes(st.host, planned, PlayTypes, t, duration, i),
                     dumped |-> Append(st.dumped, planned)]
         IN  PlayAnims(st1, args, i + 1, t, duration)

ArgLists == UNION {[1..n -> Mobjects] : n \in 0..MaxAnims}

\* Stage.play(*args, duration)
Play(args, duration) ==
    LET st == PlayAnims([queues |-> planned_keyframes, modes |-> in_animate_mode,
                         host |-> NoHost, dumped |-> <<>>],
                        args, 1, curr_time, duration)
    IN  /\ Call
        /\ \A i \in 1..Len(args) : args[i] \in constructed
        /\ curr_time + duration <= MaxTime
        /\ planned_keyframes' = st.queues
        /\ in_animate_mode' = st.modes
        /\ Commit(st.host)
        /\ curr_time' = curr_time + duration
        /\ last' = Last("play", "", <<>>, None, args, duration, st.dumped, "", FALSE)
        /\ UNCHANGED constructed

\* Stage.wait(duration)
Wait(duration) ==
    /\ Call
    /\ curr_time + duration <= MaxTime
    /\ curr_time' = curr_time + duration
    /\ Commit(NoHost)
    /\ last' = Last("wait", "", <<>>, None, <<>>, duration, <<>>, "", FALSE)
    /\ UNCHANGED <<constructed, planned_keyframes, in_animate_mode>>

\* The class attribute Mobject._in_animate_mode, which an instance reads until
\* it assigns its own.
ClassInAnimateMode == FALSE

\* Mutant of FreshQueue: the new instance's queue holds what an earlier
\* instance's queue holds (a list defaulted at class scope).
FreshQueueOfEarlierInstance(queues, earlier) ==
    IF earlier = {} THEN <<>> ELSE queues[CHOOSE e \in earlier : TRUE]

\* BasedMobject.__init__: self._planned_keyframes = [], a new list.
FreshQueue(queues, earlier) == <<>>

\* BasedMobject.__init__(stage, location, base_coll) of the Mobject m: its queue
\* and mode; the objects it clones start with their keyframes cleared.
NewBasedMobject(m) ==
    /\ m \notin constructed
    /\ constructed' = constructed \cup {m}
    /\ planned_keyframes' =
           [planned_keyframes EXCEPT ![m] = FreshQueue(planned_keyframes, constructed)]
    /\ in_animate_mode' = [in_animate_mode EXCEPT ![m] = ClassInAnimateMode]
    /\ Commit(NoHost)
    /\ last' = Last("BasedMobject", m, <<>>, None, <<>>, 0, <<>>, "", FALSE)
    /\ UNCHANGED <<curr_time, ncalls, actionVars>>

\* State after Stage.__init__: no Mobject is constructed yet.
StagerInit ==
    /\ curr_time = 0
    /\ constructed = {}
    /\ in_animate_mode = [m \in Mobjects |-> FALSE]
    /\ planned_keyframes = [m \in Mobjects |-> <<>>]
    /\ prop_value = [o \in Objects |-> [p \in PropPaths |-> InitialValue]]
    /\ fcurves = [o \in Objects |-> [p \in PropPaths |-> {}]]

\* PREFIX_LIST_TEXT_NAME is not in bpy.data.texts.
NoPrefixText == [exists |-> FALSE, lines |-> <<>>]

\* A stage whose Mobjects have no base animation.
NoBaseAnimation ==
    /\ base_fcurves = <<>>
    /\ width = 1
    /\ actions = <<>>
    /\ target = [has_action |-> FALSE, fcurves |-> <<>>, values |-> <<>>]
    /\ phase = "constructed"
    /\ prefix_text = NoPrefixText

Init ==
    /\ StagerInit
    /\ NoBaseAnimation
    /\ host_calls = <<>>
    /\ ncalls = 0
    /\ last = [op |-> "init", mobject |-> "", prop_path |-> <<>>, value |-> None,
               args |-> <<>>, duration |-> 0, ret |-> <<>>, raised |-> "",
               staged |-> FALSE, time |-> 0]

Next ==
    \/ \E m \in Mobjects : NewBasedMobject(m)
    \/ \E m \in Mobjects : Animate(m)
    \/ \E m \in Mobjects : DumpPlannedKeyframes(m)
    \/ \E m \in Mobjects, path \in PropPaths, value \in Values :
           SetPropValue(m, path, value)
    \/ \E m \in Mobjects, name \in DOMAIN CustomProperties, value \in Values :
           Customize(m, name, value)
    \/ \E args \in ArgLists, duration \in Durations : Play(args, duration)
    \/ \E duration \in Durations : Wait(duration)

Spec == Init /\ [][Next]_vars

\* The queues a Mobject can hold after animate and up to MaxQueue \div 2 staged
\* set_prop_value calls.
StagedQueues(m) ==
    LET Pairs == {StagedPair(TargetObject(m, ""), path, value) :
                     path \in PropPaths, value \in Values}
    IN  {<<>>} \cup Pairs
            \cup (IF MaxQueue >= 4 THEN {p \o q : p \in Pairs, q \in Pairs} ELSE {})

\* A stage whose Mobjects are constructed and hold staged entries: a Mobject in
\* Direct mode has an empty queue.
StagedInit ==
    /\ curr_time = 0
    /\ constructed = Mobjects
    /\ in_animate_mode \in [Mobjects -> BOOLEAN]
    /\ planned_keyframes \in [Mobjects -> UNION {StagedQueues(m) : m \in Mobjects}]
    /\ \A m \in Mobjects :
           /\ planned_keyframes[m] \in StagedQueues(m)
           /\ ~in_animate_mode[m] => planned_keyframes[m] = <<>>
    /\ prop_value = [o \in Objects |-> [p \in PropPaths |-> InitialValue]]
    /\ fcurves = [o \in Objects |-> [p \in PropPaths |-> {}]]
    /\ NoBaseAnimation
    /\ host_calls = <<>>
    /\ ncalls = 0
    /\ last = [op |-> "init", mobject |-> "", prop_path |-> <<>>, value |-> None,
               args |-> <<>>, duration |-> 0, ret |-> <<>>, raised |-> "",
               staged |-> FALSE, time |-> 0]

StagedNext == \E args \in ArgLists, duration \in Durations : Play(args, duration)

\* Plays on a stage whose Mobjects already hold staged entries.
SpecStaged == StagedInit /\ [][StagedNext]_vars


(***************************************************************************)
(* Claims about the stager, checked under Spec                             *)
(***************************************************************************)

\* C1: in Stage.play, for the list returned by one flush, every entry is written
\* once, and every host call (assignment or keyframe insertion) made for a 'start'
\* entry comes before every host call made for an 'end' entry of that list,
\* whatever the staged order.
C1_StartsBeforeEnds ==
    last.op = "play" =>
        \A a \in 1..Len(last.args) :
            LET idx == {i \in 1..Len(host_calls) : host_calls[i].anim = a}
                ins == {i \in idx : host_calls[i].call = "keyframe_insert"}
            IN  /\ Cardinality(ins) = Len(last.ret[a])
                /\ \A i, j \in idx :
                       (host_calls[i].type = "start" /\ host_calls[j].type = "end")
                           => i < j

\* C1 witness: a play has flushed a list staged as start, end, start, end.
C1_Witness ==
    /\ last.op = "play"
    /\ \E a \in 1..Len(last.args) :
           /\ Len(last.ret[a]) = 4
           /\ last.ret[a][2].type = "end"
           /\ last.ret[a][3].type = "start"
           /\ \E i \in 1..Len(host_calls) :
                  host_calls[i].anim = a /\ host_calls[i].type = "end"

\* C5: dump_planned_keyframes returns the queue as it was, in staged order, leaves
\* the queue empty and the Mobject in Direct mode whatever the queue held; a second
\* flush directly after a flush of the same Mobject returns the empty list.
C5_FlushReturnsAndClears ==
    [][(ncalls' = ncalls + 1 /\ last'.op = "dump_planned_keyframes") =>
          LET m == last'.mobject
          IN  /\ last'.ret = planned_keyframes[m]
              /\ planned_keyframes'[m] = <<>>
              /\ in_animate_mode'[m] = FALSE
              /\ (last.op = "dump_planned_keyframes" /\ last.mobject = m)
                     => last'.ret = <<>>]_vars

\* C5 witness: a flush in Staging mode that returned staged entries.
C5_Witness ==
    /\ last.op = "dump_planned_keyframes"
    /\ last.staged
    /\ Len(last.ret) = 4
    /\ planned_keyframes[last.mobject] = <<>>

\* C6: in Staging mode set_prop_value appends to the queue exactly a 'start' entry
\* with value None and then an 'end' entry with the given value, both for the
\* addressed object and path; the earlier entries and the other queues are kept.
C6_StagedAppendsStartThenEnd ==
    [][(ncalls' = ncalls + 1 /\ last'.op = "set_prop_value" /\ last'.staged) =>
          LET m == last'.mobject
              e1 == [object |-> <<m, "">>, type |-> "start",
                     prop_path |-> last'.prop_path, value |-> None]
              e2 == [object |-> <<m, "">>, type |-> "end",
                     prop_path |-> last'.prop_path, value |-> last'.value]
          IN  /\ planned_keyframes'[m] = planned_keyframes[m] \o <<e1, e2>>
              /\ \A o \in Mobjects \ {m} :
                     planned_keyframes'[o] = planned_keyframes[o]]_vars

\* C6 witness: a staged set_prop_value on a queue that already held entries.
C6_Witness ==
    /\ last.op = "set_prop_value"
    /\ last.staged
    /\ Len(planned_keyframes[last.mobject]) = 4

\* C7: in Direct mode set_prop_value at current time t inserts a keyframe at t - 1
\* holding the value the property had before the call, assigns the new value, and
\* inserts a keyframe at t holding the new value, in this order; the queues and
\* the current time are unchanged.
C7_DirectHardCut ==
    [][(ncalls' = ncalls + 1 /\ last'.op = "set_prop_value" /\ ~last'.staged) =>
          LET m == last'.mobject
              obj == <<m, "">>
              path == last'.prop_path
              old == prop_value[obj][path]
              new == last'.value
              t == curr_time
          IN  /\ Len(host_calls') = 3
              /\ host_calls'[1].call = "keyframe_insert"
              /\ host_calls'[1].frame = t - 1
              /\ host_calls'[1].value = old
              /\ host_calls'[2].call = "set_value"
              /\ host_calls'[2].value = new
              /\ host_calls'[3].call = "keyframe_insert"
              /\ host_calls'[3].frame = t
              /\ host_calls'[3].value = new
              /\ \A i \in 1..3 : host_calls'[i].object = obj
                                 /\ host_calls'[i].prop_path = path
              /\ <<t - 1, old>> \in fcurves'[obj][path]
              /\ <<t, new>> \in fcurves'[obj][path]
              /\ prop_value'[obj][path] = new
              /\ planned_keyframes' = planned_keyframes
              /\ curr_time' = curr_time]_vars

\* C7 witness: a Direct-mode set_prop_value that changed the property's value.
C7_Witness ==
    /\ last.op = "set_prop_value"
    /\ ~last.staged
    /\ Len(host_calls) = 3
    /\ host_calls[1].value # host_calls[3].value
    /\ host_calls[1].value # InitialValue

\* C18: Mobject.customize in Staging mode on a custom property that is not
\* animatable raises CustomPropertyUnanimatable and leaves every queue, every
\* mode, the Timeline Host and the current time as they were.
C18_UnanimatableRejected ==
    [][(/\ ncalls' = ncalls + 1
        /\ last'.op = "customize"
        /\ last'.staged
        /\ ~CustomProperties[last'.prop_path[1]].is_animatable) =>
          /\ last'.raised = "CustomPropertyUnanimatable"
          /\ planned_keyframes' = planned_keyframes
          /\ in_animate_mode' = in_animate_mode
          /\ prop_value' = prop_value
          /\ fcurves' = fcurves
          /\ host_calls' = <<>>
          /\ curr_time' = curr_time]_vars

\* C18 witness: a rejected customize on a Mobject that is in Staging mode and
\* holds staged entries.
C18_Witness ==
    /\ last.op = "customize"
    /\ last.raised = "CustomPropertyUnanimatable"
    /\ in_animate_mode[last.mobject]
    /\ Len(planned_keyframes[last.mobject]) = 2

\* C19: a newly constructed Mobject is in Direct mode, and an access of animate
\* leaves the Mobject in Staging mode whether it was in Direct or in Staging
\* mode before; it changes no queue, no other Mobject's mode and nothing on the
\* Timeline Host.
C19_StartsDirectAnimateIdempotent ==
    [][/\ \A m \in constructed' \ constructed : ~in_animate_mode'[m]
       /\ (ncalls' = ncalls + 1 /\ last'.op = "animate") =>
              /\ in_animate_mode'[last'.mobject]
              /\ \A o \in Mobjects \ {last'.mobject} :
                     in_animate_mode'[o] = in_animate_mode[o]
              /\ planned_keyframes' = planned_keyframes
              /\ prop_value' = prop_value
              /\ fcurves' = fcurves
              /\ host_calls' = <<>>
              /\ curr_time' = curr_time]_vars

\* C19 witness: animate was accessed on a Mobject that was in Staging mode with
\* staged entries; it is still in Staging mode and the entries are kept.
C19_Witness ==
    /\ last.op = "animate"
    /\ last.staged
    /\ in_animate_mode[last.mobject]
    /\ Len(planned_keyframes[last.mobject]) = 2

C13_PlayFramesAndTime ==
    [][(ncalls' = ncalls + 1 /\ last'.op = "play") =>
          LET t == curr_time
              d == last'.duration
              Frame(type) == IF type = "start" THEN t ELSE t + d
              Inserts(a, type) ==
                  {i \in 1..Len(host_calls') :
                      /\ host_calls'[i].call = "keyframe_insert"
                      /\ host_calls'[i].anim = a
                      /\ host_calls'[i].type = type}
              Entries(a, type) ==
                  {e \in 1..Len(last'.ret[a]) : last'.ret[a][e].type = type}
          IN  /\ curr_time' = t + d
              /\ Len(last'.ret) = Len(last'.args)
              /\ \A i \in 1..Len(host_calls') :
                     /\ host_calls'[i].anim \in 1..Len(last'.args)
                     /\ host_calls'[i].call = "keyframe_insert"
                            => host_calls'[i].frame = Frame(host_calls'[i].type)
              /\ \A a \in 1..Len(last'.args), type \in {"start", "end"} :
                     /\ Cardinality(Inserts(a, type)) = Cardinality(Entries(a, type))
                     /\ \A e \in Entries(a, type) :
                            LET k == last'.ret[a][e]
                            IN  /\ \E i \in Inserts(a, type) :
                                       /\ host_calls'[i].object = k.object
                                       /\ host_calls'[i].prop_path = k.prop_path
                                /\ \E kf \in fcurves'[k.object][k.prop_path] :
                                       kf[1] = Frame(type)
              /\ last'.args = <<>> => (host_calls' = <<>> /\ fcurves' = fcurves)]_vars

\* C13 witness: a play at current time 1 with duration 1 wrote 'start' keyframes
\* at frame 1 and 'end' keyframes at frame 2 and left the current time at 2.
C13_Witness ==
    /\ last.op = "play"
    /\ last.time = 1
    /\ last.duration = 1
    /\ curr_time = 2
    /\ \E i, j \in 1..Len(host_calls) :
           /\ host_calls[i].call = "keyframe_insert" /\ host_calls[i].type = "start"
           /\ host_calls[i].frame = 1
           /\ host_calls[j].call = "keyframe_insert" /\ host_calls[j].type = "end"
           /\ host_calls[j].frame = 2

\* C21: every staged entry is consumed exactly once.  A motion call, an animate
\* access or a wait keeps every entry that is in a queue; a play empties the queue
\* of every Mobject it is given and inserts, for each object, path and kind, as
\* many keyframes as those queues held entries of that object, path and kind
\* (also when a Mobject is given twice), and it neither touches the queue nor
\* writes for a Mobject it is not given; so a later play finds no entry of an
\* earlier one.
C21_ConsumedExactlyOnce ==
    [][(ncalls' = ncalls + 1) =>
          /\ last'.op \in {"animate", "set_prop_value", "customize", "wait"} =>
                 \A m \in Mobjects :
                     /\ Len(planned_keyframes'[m]) >= Len(planned_keyframes[m])
                     /\ SubSeq(planned_keyframes'[m], 1, Len(planned_keyframes[m]))
                            = planned_keyframes[m]
          /\ last'.op = "play" =>
                 \A m \in Mobjects :
                     LET q == planned_keyframes[m]
                         given == \E a \in 1..Len(last'.args) : last'.args[a] = m
                         Written(path, type) ==
                             {i \in 1..Len(host_calls') :
                                 /\ host_calls'[i].call = "keyframe_insert"
                                 /\ host_calls'[i].object = <<m, "">>
                                 /\ host_calls'[i].prop_path = path
                                 /\ host_calls'[i].type = type}
                         Staged(path, type) ==
                             {e \in 1..Len(q) :
                                 q[e].prop_path = path /\ q[e].type = type}
                     IN  IF given
                         THEN /\ planned_keyframes'[m] = <<>>
                              /\ \A path \in PropPaths, type \in {"start", "end"} :
                                     Cardinality(Written(path, type))
                                         = Cardinality(Staged(path, type))
                         ELSE /\ planned_keyframes'[m] = q
                              /\ \A i \in 1..Len(host_calls') :
                                     host_calls'[i].object # <<m, "">>]_vars

\* C21 witness: a play was given the same Mobject twice while its queue held four
\* entries; the first flush returned them, the second returned none, and four
\* keyframes were inserted.
C21_Witness ==
    /\ last.op = "play"
    /\ Len(last.args) = 2
    /\ last.args[1] = last.args[2]
    /\ Len(last.ret[1]) = 4
    /\ last.ret[2] = <<>>
    /\ Cardinality({i \in 1..Len(host_calls) :
                        host_calls[i].call = "keyframe_insert"}) = 4
    /\ planned_keyframes[last.args[1]] = <<>>

C26_AllStartsBeforeAnyEnd ==
    last.op = "play" =>
        \A i, j \in 1..Len(host_calls) :
            (/\ host_calls[i].call = "keyframe_insert"
             /\ host_calls[i].type = "start"
             /\ host_calls[j].call = "set_value"
             /\ host_calls[j].type = "end") => i < j

\* C26, amended: within one play the animatables are processed one after the
\* other in argument order, the 'start' entries of one animatable before its
\* 'end' entries; every 'start' keyframe holds the value its property had before
\* the play began.
C26_StartsCapturePrePlayValue ==
    [][(ncalls' = ncalls + 1 /\ last'.op = "play") =>
          \A i \in 1..Len(host_calls') :
              /\ (host_calls'[i].call = "keyframe_insert"
                     /\ host_calls'[i].type = "start") =>
                     host_calls'[i].value =
                         prop_value[host_calls'[i].object][host_calls'[i].prop_path]
              /\ \A j \in (i + 1)..Len(host_calls') :
                     /\ host_calls'[i].anim <= host_calls'[j].anim
                     /\ host_calls'[i].anim = host_calls'[j].anim =>
                            ~(host_calls'[i].type = "end"
                                /\ host_calls'[j].type = "start")]_vars

\* C26 witness: a play of two Mobjects that both held staged entries assigned an
\* 'end' value of the first before it inserted a 'start' keyframe of the second,
\* and that keyframe holds the initial value.
C26_Witness ==
    /\ last.op = "play"
    /\ Len(last.args) = 2
    /\ last.args[1] # last.args[2]
    /\ \E i, j \in 1..Len(host_calls) :
           /\ i < j
           /\ host_calls[i].call = "set_value"
           /\ host_calls[i].type = "end"
           /\ host_calls[i].anim = 1
           /\ host_calls[j].call = "keyframe_insert"
           /\ host_calls[j].type = "start"
           /\ host_calls[j].anim = 2
           /\ host_calls[j].value = InitialValue


(***************************************************************************)
(* Action segmentation engine (core/mobject/action.py, generate_actions)   *)
(***************************************************************************)
\* Bounds of the segmentation model: base keyframe times are 0..MaxBaseTime, an
\* fcurve holds at most MaxKps keyframe points, the width is 1..MaxWidth.
MaxBaseTime == 5
MaxKps == 3
MaxWidth == 3

\* generate_actions' start values of first_keyframe_time and last_keyframe_time.
FirstTimeStart == 9999999
LastTimeStart == -9999999

\* A keyframe point; co, handle_left and handle_right are <<time, value>>
\* (co[0], co[1] in the code are co[1], co[2] here).
KeyframePoint(co, handle_left, handle_right, easing, hlt, hrt, interpolation, type) ==
    [co |-> co, handle_left |-> handle_left, handle_right |-> handle_right,
     easing |-> easing, handle_left_type |-> hlt, handle_right_type |-> hrt,
     interpolation |-> interpolation, type |-> type]

\* The shapes a base keyframe point is drawn from: its value, its handle offsets
\* relative to the point, and its metadata.
KeyframeStyles ==
    << [value |-> 1, left |-> <<-1, 1>>, right |-> <<3, -1>>,
        easing |-> "EASE_IN", handle_left_type |-> "FREE",
        handle_right_type |-> "VECTOR", interpolation |-> "LINEAR",
        type |-> "EXTREME"],
       [value |-> 2, left |-> <<-2, 0>>, right |-> <<1, 2>>,
        easing |-> "EASE_OUT", handle_left_type |-> "ALIGNED",
        handle_right_type |-> "ALIGNED", interpolation |-> "BEZIER",
        type |-> "JITTER"] >>

StyledKeyframe(time, st) ==
    KeyframePoint(<<time, st.value>>,
                  <<time + st.left[1], st.value + st.left[2]>>,
                  <<time + st.right[1], st.value + st.right[2]>>,
                  st.easing, st.handle_left_type, st.handle_right_type,
                  st.interpolation, st.type)

\* One entry of anims_data: the owner and the fcurve.
AnimData(root, data_path, array_index, kps) ==
    [root |-> root, data_path |-> data_path, array_index |-> array_index,
     keyframe_points |-> kps]

RECURSIVE FirstKeyframeTime(_, _)
\* generate_actions: first_keyframe_time after the loop over anims_data.
FirstKeyframeTime(anims, acc) ==
    IF anims = <<>> THEN acc
    ELSE LET t == Head(anims).keyframe_points[1].co[1]
         IN  FirstKeyframeTime(Tail(anims), IF t < acc THEN t ELSE acc)

RECURSIVE LastKeyframeTime(_, _)
\* generate_actions: last_keyframe_time after the loop over anims_data.
LastKeyframeTime(anims, acc) ==
    IF anims = <<>> THEN acc
    ELSE LET kps == Head(anims).keyframe_points
             t == kps[Len(kps)].co[1]
         IN  LastKeyframeTime(Tail(anims), IF t > acc THEN t ELSE acc)

\* keyframe_points[0] of an fcurve without keyframe points raises IndexError.
HasEmptyFcurve(anims) == \E i \in 1..Len(anims) : anims[i].keyframe_points = <<>>

\* Mutant of ActionsAmount: the quotient is rounded up.
ActionsAmountCeil(first, last_time, w) == (last_time - first + w - 1) \div w

\* actions_amount = floor((last_keyframe_time - first_keyframe_time) / width)
ActionsAmount(first, last_time, w) == (last_time - first) \div w

\* start = first_keyframe_time + width * i, for the 0-based window index i.
WindowStart(first, w, i) == first + w * i

\* end = start + width
WindowEnd(start, w) == start + w

\* The number of in-window keyframes at which the scan marks the fcurve an actor.
ActorThreshold == 2

RECURSIVE ScanActorHalfOpen(_, _, _, _, _)
\* Mutant of ScanActor: a point at the window's end is taken to be past the window.
ScanActorHalfOpen(kps, i, start, end, k_amount_in_window) ==
    IF i > Len(kps) THEN FALSE
    ELSE IF kps[i].co[1] < start
         THEN ScanActorHalfOpen(kps, i + 1, start, end, k_amount_in_window)
         ELSE IF kps[i].co[1] >= end
              THEN FALSE
              ELSE IF k_amount_in_window + 1 >= ActorThreshold
                   THEN TRUE
                   ELSE ScanActorHalfOpen(kps, i + 1, start, end,
                                          k_amount_in_window + 1)

RECURSIVE ScanActor(_, _, _, _, _)
\* generate_actions, the scan of one fcurve for one window: points before start
\* are skipped, the first point after end stops the scan, and the scan stops as
\* soon as k_amount_in_window reaches the threshold; the result is is_an_actor.
ScanActor(kps, i, start, end, k_amount_in_window) ==
    IF i > Len(kps) THEN FALSE
    ELSE IF kps[i].co[1] < start
         THEN ScanActor(kps, i + 1, start, end, k_amount_in_window)
         ELSE IF kps[i].co[1] > end
              THEN FALSE
              ELSE IF k_amount_in_window + 1 >= ActorThreshold
                   THEN TRUE
                   ELSE ScanActor(kps, i + 1, start, end, k_amount_in_window + 1)

IsAnActor(anim, start, end) == ScanActor(anim.keyframe_points, 1, start, end, 0)

\* An Actor; base_fcurve is the position of the fcurve in anims_data, data_path is
\* fcurve.data_path + "[" + str(fcurve.array_index) + "]", kept as its two parts.
Actor(anims, j) ==
    [root |-> anims[j].root, base_fcurve |-> j,
     data_path |-> <<anims[j].data_path, anims[j].array_index>>]

RECURSIVE ActorsOfWindow(_, _, _, _)
\* generate_actions: actors_by_index[i], in the order of anims_data.
ActorsOfWindow(anims, j, start, end) ==
    IF j > Len(anims) THEN <<>>
    ELSE (IF IsAnActor(anims[j], start, end) THEN <<Actor(anims, j)>> ELSE <<>>)
         \o ActorsOfWindow(anims, j + 1, start, end)

ActionAnimation(actors, base_start_time, base_end_time) ==
    [actors |-> actors, base_start_time |-> base_start_time,
     base_end_time |-> base_end_time]

\* Mutant of GenerateActions: a window without actors yields no action.
GenerateActionsSkipEmpty(anims, w) ==
    LET first == FirstKeyframeTime(anims, FirstTimeStart)
        last_time == LastKeyframeTime(anims, LastTimeStart)
        amount == ActionsAmount(first, last_time, w)
        all == [n \in 1..amount |->
                   LET start == WindowStart(first, w, n - 1)
                       end == WindowEnd(start, w)
                   IN  ActionAnimation(ActorsOfWindow(anims, 1, start, end), start, end)]
        HasActors(a) == a.actors # <<>>
    IN  SelectSeq(all, HasActors)

\* generate_actions(mobject, width), for anims_data without an empty fcurve.
GenerateActions(anims, w) ==
    LET first == FirstKeyframeTime(anims, FirstTimeStart)
        last_time == LastKeyframeTime(anims, LastTimeStart)
        amount == ActionsAmount(first, last_time, w)
    IN  [n \in 1..amount |->
            LET start == WindowStart(first, w, n - 1)
                end == WindowEnd(start, w)
            IN  ActionAnimation(ActorsOfWindow(anims, 1, start, end), start, end)]

ActionLast(op, action, start, end, raised) ==
    [op |-> op, action |-> action, start |-> start, end |-> end, raised |-> raised]

\* BasedMobject.__init__: self.actions = generate_actions(self)
Construct ==
    /\ phase = "fresh"
    /\ IF HasEmptyFcurve(base_fcurves)
       THEN /\ actions' = actions
            /\ phase' = "failed"
            /\ last' = ActionLast("generate_actions", 0, 0, 0, "IndexError")
       ELSE /\ actions' = GenerateActions(base_fcurves, width)
            /\ phase' = "constructed"
            /\ last' = ActionLast("generate_actions", 0, 0, 0, "")
    /\ UNCHANGED <<stagerVars, host_calls, ncalls, base_fcurves, width, target,
                   prefix_text>>

\* Non-decreasing sequences of n keyframe times, each a keyframe of the first style.
SortedTimes(n, max) ==
    {s \in [1..n -> 0..max] : \A i \in 1..(n - 1) : s[i] <= s[i + 1]}

PlainKeyframes(times) ==
    [i \in 1..Len(times) |-> StyledKeyframe(times[i], KeyframeStyles[1])]

PlainFcurves ==
    {PlainKeyframes(t) : t \in UNION {SortedTimes(n, MaxBaseTime) : n \in 0..MaxKps}}

\* The base collection holds one object with no, one or two fcurves (location[0],
\* location[1]); their keyframe times and the width are the inputs.
SegmentAnimations ==
    LET root == [scope |-> "objects", name |-> "Cube"]
    IN  {<<>>}
        \cup {<<AnimData(root, "location", 0, k1)>> : k1 \in PlainFcurves}
        \cup {<<AnimData(root, "location", 0, k[1]), AnimData(root, "location", 1, k[2])>> :
                 k \in PlainFcurves \X PlainFcurves}

SegmentInit ==
    /\ StagerInit
    /\ host_calls = <<>>
    /\ ncalls = 0
    /\ last = ActionLast("init", 0, 0, 0, "")
    /\ width \in 1..MaxWidth
    /\ base_fcurves \in SegmentAnimations
    /\ actions = <<>>
    /\ target = [has_action |-> FALSE, fcurves |-> <<>>, values |-> <<>>]
    /\ phase = "fresh"
    /\ prefix_text = NoPrefixText

SegmentNext == Construct

SpecSegment == SegmentInit /\ [][SegmentNext]_vars


(***************************************************************************)
(* Action retargeting engine (core/mobject/action.py, ActionAnimation)     *)
(***************************************************************************)
\* Bounds of the retargeting model: base keyframe times are 0..MaxRetargetTime,
\* target windows end at 0..MaxTargetTime.
MaxRetargetTime == 3
MaxTargetTime == 3

TargetStarts == {0, 1}
\* The value offset the host gives the handles of a keyframe it inserts.
HostHandleDv == {0, 1}

\* Times written by the engine are quotients of integers.
Rat(num, den) == [num |-> num, den |-> den]

\* scale = (end - start) / (self.base_end_time - self.base_start_time)
Scale(action, start, end) ==
    Rat(end - start, action.base_end_time - action.base_start_time)

\* interp(x, min, max, new_min, new_max) =
\*     ((x - min) / (max - min)) * (new_max - new_min) + new_min,  for max > min
interp(x, min, max, new_min, new_max) ==
    Rat((x - min) * (new_max - new_min) + new_min * (max - min), max - min)

\* Mutant of round: the quotient is truncated downwards.
RoundDown(r) == r.num \div r.den

\* Python's round(x): the nearest integer, a tie goes to the even one (den > 0).
round(r) ==
    LET fl == r.num \div r.den
        rem == r.num % r.den
    IN  IF 2 * rem < r.den THEN fl
        ELSE IF 2 * rem > r.den THEN fl + 1
        ELSE IF fl % 2 = 0 THEN fl ELSE fl + 1

\* Position of the first fcurve with this data path and array index, 0 if none.
FindFcurve(fcs, data_path, array_index) ==
    LET hits == {i \in 1..Len(fcs) : /\ fcs[i].data_path = data_path
                                     /\ fcs[i].array_index = array_index}
    IN  IF hits = {} THEN 0 ELSE CHOOSE i \in hits : \A j \in hits : i <= j

\* Mutant of get_fcurve: an fcurve that is found is emptied.
GetFcurveEmptied(tg, data_path, array_index) ==
    LET found == IF tg.has_action
                 THEN FindFcurve(tg.fcurves, data_path, array_index)
                 ELSE 0
    IN  IF found # 0
        THEN [tg |-> [tg EXCEPT !.fcurves[found].keyframe_points = {}],
              index |-> found]
        ELSE [tg |-> [tg EXCEPT !.has_action = TRUE,
                                !.fcurves = Append(@, [data_path |-> data_path,
                                                       array_index |-> array_index,
                                                       keyframe_points |-> {}])],
              index |-> Len(tg.fcurves) + 1]

\* ActionAnimation._get_fcurve: the fcurve if the target has one, else a new empty
\* fcurve (in a new action if the target has none); [tg, index].
get_fcurve(tg, data_path, array_index) ==
    LET found == IF tg.has_action
                 THEN FindFcurve(tg.fcurves, data_path, array_index)
                 ELSE 0
    IN  IF found # 0
        THEN [tg |-> tg, index |-> found]
        ELSE [tg |-> [tg EXCEPT !.has_action = TRUE,
                                !.fcurves = Append(@, [data_path |-> data_path,
                                                       array_index |-> array_index,
                                                       keyframe_points |-> {}])],
              index |-> Len(tg.fcurves) + 1]

\* Mutant of set_target_value: the value is added to the property's value.
AddTargetValue(tg, data_path, value) ==
    [tg EXCEPT !.values[data_path] = @ + value]

\* set_value_by_prop_path(target, data_path_to_prop_path(data_path), value):
\* assigns component array_index of the property.
set_target_value(tg, data_path, value) ==
    [tg EXCEPT !.values[data_path] = value]

\* The keyframe the host creates at `time`: it holds the property's current value;
\* its handles and metadata are the host's, not read from the base keyframe.
HostKeyframe(time, v, hd) ==
    KeyframePoint(<<time, v>>, <<Rat(time - 1, 1), v - hd>>, <<Rat(time + 1, 1), v + hd>>,
                  "AUTO", "AUTO_CLAMPED", "AUTO_CLAMPED", "BEZIER", "KEYFRAME")

\* Mutant of keyframe_insert_str: a keyframe already at `time` is kept.
KeyframeInsertKeepingOld(tg, data_path, time, hd) ==
    LET f == FindFcurve(tg.fcurves, data_path[1], data_path[2])
        v == tg.values[data_path]
    IN  [tg EXCEPT !.fcurves[f].keyframe_points = @ \cup {HostKeyframe(time, v, hd)}]

\* keyframe_insert(target, data_path, time) with a str path "<data_path>[<index>]":
\* obj.keyframe_insert(data_path, index, frame); a keyframe at `time` is replaced.
keyframe_insert_str(tg, data_path, time, hd) ==
    LET f == FindFcurve(tg.fcurves, data_path[1], data_path[2])
        v == tg.values[data_path]
    IN  [tg EXCEPT !.fcurves[f].keyframe_points =
            {k \in @ : k.co[1] # time} \cup {HostKeyframe(time, v, hd)}]

\* Mutant of ConformHandleTime: the handle offset is copied unscaled.
ConformHandleTimeUnscaled(base_handle_time, base_time, scale, target_time) ==
    Rat((base_handle_time - base_time) * scale.den + target_time * scale.den, scale.den)

\* (getattr(base, handle)[0] - base.co[0]) * scale + target.co[0]
ConformHandleTime(base_handle_time, base_time, scale, target_time) ==
    Rat((base_handle_time - base_time) * scale.num + target_time * scale.den, scale.den)

\* ActionAnimation._conform_keyframe(base, target, scale): five attributes are
\* copied and element 0 (the time) of both handles is set; element 1 is not.
conform_keyframe(base, kp, scale) ==
    [kp EXCEPT !.easing = base.easing,
               !.handle_left_type = base.handle_left_type,
               !.handle_right_type = base.handle_right_type,
               !.interpolation = base.interpolation,
               !.type = base.type,
               !.handle_left[1] = ConformHandleTime(base.handle_left[1], base.co[1],
                                                    scale, kp.co[1]),
               !.handle_right[1] = ConformHandleTime(base.handle_right[1], base.co[1],
                                                     scale, kp.co[1])]

\* Mutant of NewTime: the base window is mapped onto the target window reversed.
NewTimeReversed(base_time, action, start, end) ==
    round(interp(base_time, action.base_start_time, action.base_end_time, end, start))

\* apply_animation: the time a base keyframe is inserted at.
NewTime(base_time, action, start, end) ==
    round(interp(base_time, action.base_start_time, action.base_end_time, start, end))

\* apply_animation, one pass of the second while loop: rs = [tg, calls].
ReplayKeyframe(rs, a, actor, f, base_kp, action, start, end, hd) ==
    LET tg1 == set_target_value(rs.tg, actor.data_path, base_kp.co[2])
        time == NewTime(base_kp.co[1], action, start, end)
        tg2 == keyframe_insert_str(tg1, actor.data_path, time, hd)
        new_kp == CHOOSE k \in tg2.fcurves[f].keyframe_points : k.co[1] = time
        conformed == conform_keyframe(base_kp, new_kp, Scale(action, start, end))
        tg3 == [tg2 EXCEPT !.fcurves[f].keyframe_points =
                               (@ \ {new_kp}) \cup {conformed}]
    IN  [tg |-> tg3,
         calls |-> Append(rs.calls,
                          [actor |-> a, base |-> base_kp, value |-> base_kp.co[2],
                           time |-> time, fcurve |-> f, new |-> conformed])]

RECURSIVE ReplayKeyframesHalfOpen(_, _, _, _, _, _, _, _, _, _)
\* Mutant of ReplayKeyframes: a point on base_end_time is not replayed.
ReplayKeyframesHalfOpen(rs, a, actor, f, kps, i, action, start, end, hd) ==
    IF i <= Len(kps) /\ kps[i].co[1] < action.base_end_time
    THEN ReplayKeyframesHalfOpen(
             ReplayKeyframe(rs, a, actor, f, kps[i], action, start, end, hd),
             a, actor, f, kps, i + 1, action, start, end, hd)
    ELSE rs

\* Mutant of SkipBefore: no point is skipped.
SkipBeforeNone(kps, i, base_start_time) == i

RECURSIVE SkipBefore(_, _, _)
\* apply_animation, first while loop: the first i with kps[i].co[0] >= base_start_time.
SkipBefore(kps, i, base_start_time) ==
    IF i <= Len(kps) /\ kps[i].co[1] < base_start_time
    THEN SkipBefore(kps, i + 1, base_start_time)
    ELSE i

RECURSIVE ReplayKeyframes(_, _, _, _, _, _, _, _, _, _)
\* apply_animation, second while loop.
ReplayKeyframes(rs, a, actor, f, kps, i, action, start, end, hd) ==
    IF i <= Len(kps) /\ kps[i].co[1] <= action.base_end_time
    THEN ReplayKeyframes(ReplayKeyframe(rs, a, actor, f, kps[i], action, start, end, hd),
                         a, actor, f, kps, i + 1, action, start, end, hd)
    ELSE rs

RECURSIVE ApplyActors(_, _, _, _, _, _, _)
\* apply_animation, loop `for actor in self.actors`.
ApplyActors(rs, anims, action, a, start, end, hd) ==
    IF a > Len(action.actors) THEN rs
    ELSE LET actor == action.actors[a]
             base_fcurve == anims[actor.base_fcurve]
             kps == base_fcurve.keyframe_points
             i == SkipBefore(kps, 1, action.base_start_time)
             got == get_fcurve(rs.tg, base_fcurve.data_path, base_fcurve.array_index)
             rs1 == ReplayKeyframes([tg |-> got.tg, calls |-> rs.calls], a, actor,
                                    got.index, kps, i, action, start, end, hd)
         IN  ApplyActors(rs1, anims, action, a + 1, start, end, hd)

\* The record of an apply_animation call; hd is the handle offset the host used.
ApplyLast(action, start, end, raised, hd) ==
    [op |-> "apply_animation", action |-> action, start |-> start, end |-> end,
     raised |-> raised, hd |-> hd]

\* The body of ActionAnimation.apply_animation(start, end) of actions[n].
Applied(n, start, end, hd) ==
    /\ n \in 1..Len(actions)
    /\ IF actions[n].base_end_time = actions[n].base_start_time
       THEN /\ last' = ApplyLast(n, start, end, "ZeroDivisionError", hd)
            /\ target' = target
            /\ host_calls' = <<>>
       ELSE LET rs == ApplyActors([tg |-> target, calls |-> <<>>], base_fcurves,
                                  actions[n], 1, start, end, hd)
            IN  /\ last' = ApplyLast(n, start, end, "", hd)
                /\ target' = rs.tg
                /\ host_calls' = rs.calls
    /\ UNCHANGED <<stagerVars, ncalls, base_fcurves, width, actions, prefix_text>>

\* ActionAnimation.apply_animation(start, end) of actions[n], the first call
ApplyAnimation(n, start, end, hd) ==
    /\ phase = "constructed"
    /\ phase' = "applied"
    /\ Applied(n, start, end, hd)

\* A second apply_animation call, of any action on any target window, on the
\* clone the first call wrote to; the host computes handles as it did before.
ApplyAnimationAgain(n, start, end) ==
    /\ phase = "applied"
    /\ phase' = "reapplied"
    /\ Applied(n, start, end, last.hd)

\* Animation.dump_planned_keyframes, which ActionAnimation inherits: returns [].
AnimationDumpPlannedKeyframes == <<>>

\* Stage.play(actions[n], duration=duration): the list the action dumps is
\* written kind by kind and the current time advances; Stage.play makes no
\* other call on its argument.
PlayAction(n, duration) ==
    LET planned == AnimationDumpPlannedKeyframes
        h == WriteTypes(NoHost, planned, PlayTypes, curr_time, duration, 1)
    IN  /\ phase = "constructed"
        /\ n \in 1..Len(actions)
        /\ curr_time + duration <= MaxTime
        /\ Commit(h)
        /\ curr_time' = curr_time + duration
        /\ last' = ActionLast("play", n, curr_time, curr_time + duration, "")
        /\ phase' = "played"
        /\ UNCHANGED <<constructed, planned_keyframes, in_animate_mode, ncalls,
                       base_fcurves, width, actions, target, prefix_text>>

\* Keyframe points at non-decreasing times, each of one of the styles.
StyledFcurves ==
    UNION {{[i \in 1..n |-> StyledKeyframe(t[i], KeyframeStyles[st[i]])] :
               t \in SortedTimes(n, MaxRetargetTime),
               st \in [1..n -> 1..Len(KeyframeStyles)]} : n \in 1..MaxKps}

TargetChannels == {<<"location", 0>>, <<"location", 1>>}

\* The base object has two fcurves: location[0] with any styled keyframe points,
\* location[1] with keyframes at 0 and 2; the clone has no fcurve yet.
RetargetInit ==
    /\ StagerInit
    /\ host_calls = <<>>
    /\ ncalls = 0
    /\ last = ActionLast("init", 0, 0, 0, "")
    /\ width \in 1..MaxWidth
    /\ \E k1 \in StyledFcurves :
           base_fcurves = << AnimData([scope |-> "objects", name |-> "Cube"],
                                      "location", 0, k1),
                             AnimData([scope |-> "objects", name |-> "Cube"],
                                      "location", 1, PlainKeyframes(<<0, 2>>)) >>
    /\ actions = <<>>
    /\ \E has_action \in BOOLEAN :
           target = [has_action |-> has_action, fcurves |-> <<>>,
                     values |-> [c \in TargetChannels |-> InitialValue]]
    /\ phase = "fresh"
    /\ prefix_text = NoPrefixText

RetargetNext ==
    \/ Construct
    \/ \E n \in 1..Len(actions), start \in TargetStarts, end \in 0..MaxTargetTime,
          hd \in HostHandleDv :
           ApplyAnimation(n, start, end, hd)
    \/ \E n \in 1..Len(actions), duration \in Durations : PlayAction(n, duration)

SpecRetarget == RetargetInit /\ [][RetargetNext]_vars

\* Base fcurves location[0] of the runs with two apply_animation calls.
ReplayFcurves ==
    {PlainKeyframes(<<0, 1>>), PlainKeyframes(<<0, 1, 2>>), PlainKeyframes(<<0, 2, 3>>),
     <<StyledKeyframe(0, KeyframeStyles[1]), StyledKeyframe(1, KeyframeStyles[2]),
       StyledKeyframe(3, KeyframeStyles[1])>>}

ReplayWidths == {1, 2}

\* As RetargetInit, with the base fcurve location[0] drawn from ReplayFcurves and
\* the width from ReplayWidths.
ReplayInit ==
    /\ StagerInit
    /\ host_calls = <<>>
    /\ ncalls = 0
    /\ last = ActionLast("init", 0, 0, 0, "")
    /\ width \in ReplayWidths
    /\ \E k1 \in ReplayFcurves :
           base_fcurves = << AnimData([scope |-> "objects", name |-> "Cube"],
                                      "location", 0, k1),
                             AnimData([scope |-> "objects", name |-> "Cube"],
                                      "location", 1, PlainKeyframes(<<0, 2>>)) >>
    /\ actions = <<>>
    /\ \E has_action \in BOOLEAN :
           target = [has_action |-> has_action, fcurves |-> <<>>,
                     values |-> [c \in TargetChannels |-> InitialValue]]
    /\ phase = "fresh"
    /\ prefix_text = NoPrefixText

ReplayNext ==
    \/ Construct
    \/ \E n \in 1..Len(actions), start \in TargetStarts, end \in 0..MaxTargetTime,
          hd \in HostHandleDv :
           ApplyAnimation(n, start, end, hd)
    \/ \E n \in 1..Len(actions), start \in TargetStarts, end \in 0..MaxTargetTime :
           ApplyAnimationAgain(n, start, end)

\* Two apply_animation calls in a row on one clone.
SpecReplay == ReplayInit /\ [][ReplayNext]_vars

(***************************************************************************)
(* Claims about generate_actions, checked under SpecSegment                *)
(***************************************************************************)

\* C3: for fcurves with non-decreasing keyframe times, an fcurve is listed (once)
\* as an actor of window [start, end] if and only if at least 2 of its keyframe
\* points have a time in the closed interval [start, end]; so an fcurve with one
\* keyframe is never an actor, times [5, 40] give no actor of window [0, 30] and
\* times [10, 20] give an actor of window [0, 30].
C3_ActorIffTwoInWindow ==
    /\ phase = "constructed" =>
           \A n \in 1..Len(actions), j \in 1..Len(base_fcurves) :
               LET a == actions[n]
                   kps == base_fcurves[j].keyframe_points
                   inside == {i \in 1..Len(kps) :
                                 /\ a.base_start_time <= kps[i].co[1]
                                 /\ kps[i].co[1] <= a.base_end_time}
                   listed == {x \in 1..Len(a.actors) : a.actors[x].base_fcurve = j}
               IN  /\ Cardinality(listed) = (IF Cardinality(inside) >= 2 THEN 1 ELSE 0)
                   /\ Len(kps) = 1 => listed = {}
    /\ ~IsAnActor([keyframe_points |-> PlainKeyframes(<<5, 40>>)], 0, 30)
    /\ IsAnActor([keyframe_points |-> PlainKeyframes(<<10, 20>>)], 0, 30)

\* C3 witness: a window with an actor that has 3 points in it (the scan stops
\* early), with a point on the window's end, and a non-actor with one point in it.
C3_Witness ==
    /\ phase = "constructed"
    /\ \E n \in 1..Len(actions) :
           LET a == actions[n]
               In(j) == {i \in 1..Len(base_fcurves[j].keyframe_points) :
                            /\ a.base_start_time <= base_fcurves[j].keyframe_points[i].co[1]
                            /\ base_fcurves[j].keyframe_points[i].co[1] <= a.base_end_time}
           IN  /\ Len(base_fcurves) = 2
               /\ Len(a.actors) = 1
               /\ a.actors[1].base_fcurve = 1
               /\ Cardinality(In(1)) = 2
               /\ Len(base_fcurves[1].keyframe_points) = 3
               /\ base_fcurves[1].keyframe_points[3].co[1] = a.base_end_time
               /\ base_fcurves[1].keyframe_points[1].co[1] < a.base_start_time
               /\ Cardinality(In(2)) = 1

\* C4: generate_actions returns floor((last_time - first_time) / W) actions when
\* that number is positive and none otherwise, first_time being the least first
\* keyframe time and last_time the greatest last keyframe time of the fcurves;
\* the n-th action (from 0) has start = first_time + n * W and end = start + W, so
\* consecutive windows share a boundary and every window lies in
\* [first_time, last_time]; times spanning [0, 95] with W = 30 give 3 actions.
C4_WindowCountAndBounds ==
    /\ (phase = "constructed" /\ base_fcurves # <<>>) =>
           LET firsts == {base_fcurves[j].keyframe_points[1].co[1] :
                             j \in 1..Len(base_fcurves)}
               lasts == {base_fcurves[j].keyframe_points[
                             Len(base_fcurves[j].keyframe_points)].co[1] :
                             j \in 1..Len(base_fcurves)}
               first == CHOOSE t \in firsts : \A u \in firsts : t <= u
               last_time == CHOOSE t \in lasts : \A u \in lasts : t >= u
               count == CHOOSE q \in 0..(last_time - first) :
                            q * width <= last_time - first
                            /\ last_time - first < (q + 1) * width
           IN  /\ Len(actions) = count
               /\ \A n \in 1..Len(actions) :
                      /\ actions[n].base_start_time = first + (n - 1) * width
                      /\ actions[n].base_end_time = actions[n].base_start_time + width
                      /\ first <= actions[n].base_start_time
                      /\ actions[n].base_end_time <= last_time
                      /\ n > 1 => actions[n - 1].base_end_time
                                      = actions[n].base_start_time
    /\ (phase = "constructed" /\ base_fcurves = <<>>) => actions = <<>>
    /\ Len(GenerateActions(<<[keyframe_points |-> PlainKeyframes(<<0, 95>>),
                              root |-> "", data_path |-> "", array_index |-> 0]>>,
                           30)) = 3

\* C4 witness: several actions were generated and the span of the keyframes is
\* not a multiple of the width.
C4_Witness ==
    /\ phase = "constructed"
    /\ Len(actions) = 2
    /\ width = 2
    /\ Len(base_fcurves) = 2
    /\ base_fcurves[1].keyframe_points[1].co[1] = 1
    /\ base_fcurves[2].keyframe_points[1].co[1] = 0
    /\ base_fcurves[2].keyframe_points[Len(base_fcurves[2].keyframe_points)].co[1] = 5


\* C15: generate_actions on a channel set without keyframe data (no fcurve at
\* all, or only fcurves with zero keyframe points) raises nothing and returns an
\* empty list of actions.
C15_NoKeyframeDataYieldsNoActions ==
    (/\ last.op = "generate_actions"
     /\ \A j \in 1..Len(base_fcurves) : base_fcurves[j].keyframe_points = <<>>)
        => (last.raised = "" /\ phase = "constructed" /\ actions = <<>>)

\* C16: generate_actions returns one action for every window index, the n-th
\* with the n-th window's bounds, also when no fcurve is an actor of that window:
\* the number of actions is the window count and the actor list of an action is
\* empty exactly when no fcurve has two keyframe points in its window.
C16_EveryWindowEmitted ==
    (phase = "constructed" /\ base_fcurves # <<>>) =>
        LET firsts == {base_fcurves[j].keyframe_points[1].co[1] :
                          j \in 1..Len(base_fcurves)}
            lasts == {base_fcurves[j].keyframe_points[
                          Len(base_fcurves[j].keyframe_points)].co[1] :
                          j \in 1..Len(base_fcurves)}
            first == CHOOSE t \in firsts : \A u \in firsts : t <= u
            last_time == CHOOSE t \in lasts : \A u \in lasts : t >= u
            windows == {n \in 1..(MaxBaseTime + 1) :
                           first + n * width <= last_time}
            TwoInside(j, lo, hi) ==
                \E i1, i2 \in 1..Len(base_fcurves[j].keyframe_points) :
                    /\ i1 < i2
                    /\ lo <= base_fcurves[j].keyframe_points[i1].co[1]
                    /\ base_fcurves[j].keyframe_points[i2].co[1] <= hi
        IN  /\ DOMAIN actions = windows
            /\ \A n \in windows :
                   /\ actions[n].base_start_time = first + (n - 1) * width
                   /\ (actions[n].actors = <<>>) <=>
                          ~\E j \in 1..Len(base_fcurves) :
                               TwoInside(j, actions[n].base_start_time,
                                         actions[n].base_end_time)

\* C16 witness: five actions were returned, the first and the last with an
\* actor, the three between them without any.
C16_Witness ==
    /\ phase = "constructed"
    /\ Len(actions) = 5
    /\ actions[1].actors # <<>>
    /\ actions[2].actors = <<>>
    /\ actions[3].actors = <<>>
    /\ actions[4].actors = <<>>
    /\ actions[5].actors # <<>>


(***************************************************************************)
(* Claims about apply_animation, checked under SpecRetarget                *)
(***************************************************************************)

\* C2 as stated: every base keyframe replayed by apply_animation(start, end) is
\* inserted at exactly start + (t - base_start) * (end - start) / (base_end -
\* base_start), also when that is not a whole number.
C2_ExactLinearMap ==
    (last.op = "apply_animation" /\ last.raised = "") =>
        \A c \in 1..Len(host_calls) :
            LET a == actions[last.action]
                d == a.base_end_time - a.base_start_time
            IN  host_calls[c].time * d =
                    last.start * d
                    + (host_calls[c].base.co[1] - a.base_start_time)
                      * (last.end - last.start)

\* C2 as amended: every base keyframe replayed by apply_animation(start, end) is
\* inserted at the whole number nearest to start + (t - base_start) * (end - start)
\* / (base_end - base_start), a tie going to the even number; this is the linear
\* map itself whenever the map yields a whole number (base window [0, 30], target
\* window [100, 160]: a point at 15 lands on 130).
C2_RoundedLinearMap ==
    /\ (last.op = "apply_animation" /\ last.raised = "") =>
           \A c \in 1..Len(host_calls) :
               LET a == actions[last.action]
                   d == a.base_end_time - a.base_start_time
                   exact == last.start * d
                            + (host_calls[c].base.co[1] - a.base_start_time)
                              * (last.end - last.start)
                   diff == host_calls[c].time * d - exact
                   dist == IF diff < 0 THEN -diff ELSE diff
               IN  /\ 2 * dist <= d
                   /\ 2 * dist = d => host_calls[c].time % 2 = 0
    /\ NewTime(15, [base_start_time |-> 0, base_end_time |-> 30], 100, 160) = 130

\* C2 witness: apply_animation replayed a keyframe that the linear map sends
\* halfway between two whole numbers, and one it sends to a whole number.
C2_Witness ==
    /\ last.op = "apply_animation"
    /\ \E c1, c2 \in 1..Len(host_calls) :
           LET a == actions[last.action]
               d == a.base_end_time - a.base_start_time
               Exact(c) == last.start * d
                           + (host_calls[c].base.co[1] - a.base_start_time)
                             * (last.end - last.start)
           IN  /\ (2 * Exact(c1)) % d = 0
               /\ Exact(c1) % d # 0
               /\ Exact(c2) % d = 0
               /\ host_calls[c2].time # last.start

\* C8: apply_animation(start, end) with end <= start on an action whose base
\* window has positive width raises DegenerateWindowError and makes no write.
C8_DegenerateWindowRejected ==
    (/\ last.op = "apply_animation"
     /\ last.end <= last.start
     /\ actions[last.action].base_end_time > actions[last.action].base_start_time)
        => (last.raised = "DegenerateWindowError" /\ host_calls = <<>>)

\* C9: for every keyframe written by apply_animation, the time offset of each
\* handle relative to the new keyframe's time is the base handle's time offset
\* relative to the base keyframe's time, multiplied by scale = (end - start) /
\* (base_end - base_start); a base offset of +3 with scale 2 gives +6.
C9_HandleTimeOffsetsScaled ==
    /\ (last.op = "apply_animation" /\ last.raised = "") =>
           \A c \in 1..Len(host_calls) :
               LET a == actions[last.action]
                   d == a.base_end_time - a.base_start_time
                   b == host_calls[c].base
                   k == host_calls[c].new
                   Scaled(new_handle, base_handle) ==
                       (new_handle[1].num - k.co[1] * new_handle[1].den) * d
                           = (base_handle[1] - b.co[1]) * (last.end - last.start)
                             * new_handle[1].den
               IN  /\ k.co[1] = host_calls[c].time
                   /\ Scaled(k.handle_left, b.handle_left)
                   /\ Scaled(k.handle_right, b.handle_right)
    /\ LET h == ConformHandleTime(13, 10, Rat(2, 1), 20)
       IN  h.num = (20 + 6) * h.den

\* C9 witness: a keyframe whose base right handle is 3 after it was written with
\* scale 2; its new right handle is 6 after it.
C9_Witness ==
    /\ last.op = "apply_animation"
    /\ last.end - last.start = 2 * width
    /\ \E c \in 1..Len(host_calls) :
           /\ host_calls[c].base.handle_right[1] - host_calls[c].base.co[1] = 3
           /\ host_calls[c].new.handle_right[1].num
                        = (host_calls[c].time + 6) * host_calls[c].new.handle_right[1].den

\* C10: for every keyframe written by apply_animation, the value offset of each
\* handle on the new keyframe equals that of the base keyframe's handle, and the
\* interpolation, the easing and both handle types equal those of the base keyframe.
C10_HandleValuesAndMetadataCopied ==
    (last.op = "apply_animation" /\ last.raised = "") =>
        \A c \in 1..Len(host_calls) :
            LET b == host_calls[c].base
                k == host_calls[c].new
            IN  /\ k.handle_left[2] - k.co[2] = b.handle_left[2] - b.co[2]
                /\ k.handle_right[2] - k.co[2] = b.handle_right[2] - b.co[2]
                /\ k.interpolation = b.interpolation
                /\ k.easing = b.easing
                /\ k.handle_left_type = b.handle_left_type
                /\ k.handle_right_type = b.handle_right_type


\* C14: when an action returned by generate_actions is passed to Stage.play at
\* current time t with duration d, the retargeting engine is run for it on the
\* target window [t, t + d]: every actor's channel exists on the target and
\* holds, for every base point in the action's window, a keyframe at the time
\* the point is mapped to.
C14_PlayRunsRetargeting ==
    last.op = "play" =>
        LET a == actions[last.action]
        IN  \A x \in 1..Len(a.actors) :
                LET actor == a.actors[x]
                    kps == base_fcurves[actor.base_fcurve].keyframe_points
                    f == FindFcurve(target.fcurves, actor.data_path[1], actor.data_path[2])
                IN  /\ f # 0
                    /\ \A i \in 1..Len(kps) :
                           (/\ a.base_start_time <= kps[i].co[1]
                            /\ kps[i].co[1] <= a.base_end_time)
                               => \E k \in target.fcurves[f].keyframe_points :
                                      k.co[1] = NewTime(kps[i].co[1], a,
                                                        last.start, last.end)

\* C17: apply_animation replays, for each actor, exactly the base keyframe
\* points with base_start <= t <= base_end, both ends included, in their order:
\* each of them gives one value write and one keyframe insert, a point with
\* t < base_start or t > base_end gives none.
C17_ReplaysExactlyWindowPoints ==
    (last.op = "apply_animation" /\ last.raised = "") =>
        LET a == actions[last.action]
        IN  /\ \A c \in 1..Len(host_calls) : host_calls[c].actor \in 1..Len(a.actors)
            /\ \A x \in 1..Len(a.actors) :
                   LET kps == base_fcurves[a.actors[x].base_fcurve].keyframe_points
                       InWindow(k) == /\ a.base_start_time <= k.co[1]
                                      /\ k.co[1] <= a.base_end_time
                       OfActor(c) == c.actor = x
                       replayed == SelectSeq(host_calls, OfActor)
                       inside == SelectSeq(kps, InWindow)
                   IN  /\ Len(replayed) = Len(inside)
                       /\ \A i \in 1..Len(inside) :
                              /\ replayed[i].base = inside[i]
                              /\ replayed[i].value = inside[i].co[2]

\* C17 witness: an actor with a point before the window, a point on the window's
\* start and a point on the window's end; the two boundary points were replayed.
C17_Witness ==
    /\ last.op = "apply_animation"
    /\ last.raised = ""
    /\ LET a == actions[last.action]
       IN  \E x \in 1..Len(a.actors) :
               LET kps == base_fcurves[a.actors[x].base_fcurve].keyframe_points
               IN  /\ Len(kps) = 3
                   /\ kps[1].co[1] < a.base_start_time
                   /\ kps[2].co[1] = a.base_start_time
                   /\ kps[3].co[1] = a.base_end_time
                   /\ Cardinality({c \in 1..Len(host_calls) :
                                      host_calls[c].actor = x}) = 2

(***************************************************************************)
(* PropPath addressor (core/utils.py): rendering and parsing data paths    *)
(***************************************************************************)
\* A Python str is a sequence of one-character strings; a PropPath is a sequence
\* of such segments, at most MaxSegments long.
MaxSegments == 3

Digits == {"0", "1", "3", "7"}

\* Plain segments (attribute names).
PlainSegments == {<<"x">>, <<"a", "b">>, <<"b", "3">>}

\* Keys of bracket segments: a name, a single-digit index, a longer index, a key
\* mixing digits and letters, a negative index.
BracketKeys == {<<"K">>, <<"1">>, <<"3", "7">>, <<"a", "3">>, <<"-", "1">>}

BracketSegments == {<<"[">> \o k \o <<"]">> : k \in BracketKeys}

Segments == PlainSegments \cup BracketSegments

ValidPropPaths == UNION {[1..n -> Segments] : n \in 0..MaxSegments}

\* str.isdigit(): non-empty and every character is a digit.
isdigit(s) == s # <<>> /\ \A i \in 1..Len(s) : s[i] \in Digits

\* str.startswith("[")
startswith_bracket(s) == s # <<>> /\ s[1] = "["

\* elem[1:-1]
Inner(s) == SubSeq(s, 2, Len(s) - 1)

\* Mutant of RenderBracket: every key is rendered as a quoted string key.
RenderBracketAlwaysQuoted(elem) == <<"[", "\"">> \o Inner(elem) \o <<"\"", "]">>

\* prop_path_to_data_path, a bracket segment: a key of digits is rendered bare,
\* any other key between double quotes.
RenderBracket(elem) ==
    IF isdigit(Inner(elem))
    THEN <<"[">> \o Inner(elem) \o <<"]">>
    ELSE <<"[", "\"">> \o Inner(elem) \o <<"\"", "]">>

\* Mutant of RenderPlain: the '.' is left out.
RenderPlainNoDot(elem, prev) == elem

\* prop_path_to_data_path, a plain segment: a '.' first if a plain segment was
\* rendered before.
RenderPlain(elem, prev) == (IF prev THEN <<".">> ELSE <<>>) \o elem

RECURSIVE RenderFrom(_, _, _, _)
\* prop_path_to_data_path, the loop over prop_path with its `out` and `prev`.
RenderFrom(prop_path, i, out, prev) ==
    IF i > Len(prop_path) THEN out
    ELSE LET elem == prop_path[i]
         IN  IF startswith_bracket(elem)
             THEN RenderFrom(prop_path, i + 1, out \o RenderBracket(elem), prev)
             ELSE RenderFrom(prop_path, i + 1, out \o RenderPlain(elem, prev), TRUE)

prop_path_to_data_path(prop_path) == RenderFrom(prop_path, 1, <<>>, FALSE)

\* The position of the first "]" at or after position i, Len(s) + 1 if none.
ClosingBracket(s, i) ==
    LET js == {j \in i..Len(s) : s[j] = "]"}
    IN  IF js = {} THEN Len(s) + 1 ELSE CHOOSE j \in js : \A k \in js : j <= k

\* The key written between the brackets: a quoted string key without its quotes,
\* a bare index as it is.
ParsedKey(inner) ==
    IF Len(inner) >= 2 /\ inner[1] = "\"" /\ inner[Len(inner)] = "\""
    THEN Inner(inner)
    ELSE inner

RECURSIVE ParseFrom(_, _, _, _)
\* data_path_to_prop_path, the scan of the channel-address string: `cur` is the
\* plain segment being read, `out` the segments read so far.  A '.' ends a plain
\* segment; a '[' ends it and opens a bracket segment that runs to the next ']'.
ParseFrom(s, i, cur, out) ==
    LET flushed == IF cur = <<>> THEN out ELSE Append(out, cur)
    IN  IF i > Len(s) THEN flushed
        ELSE IF s[i] = "." THEN ParseFrom(s, i + 1, <<>>, flushed)
        ELSE IF s[i] = "["
             THEN LET j == ClosingBracket(s, i)
                      key == ParsedKey(SubSeq(s, i + 1, j - 1))
                  IN  ParseFrom(s, j + 1, <<>>,
                                Append(flushed, <<"[">> \o key \o <<"]">>))
             ELSE ParseFrom(s, i + 1, Append(cur, s[i]), out)

\* data_path_to_prop_path(data_path): the PropPath a channel-address string names.
data_path_to_prop_path(data_path) == ParseFrom(data_path, 1, <<>>, <<>>)

PathLast(op, prop_path, data_path, ret) ==
    [op |-> op, prop_path |-> prop_path, data_path |-> data_path, ret |-> ret]

\* A call of prop_path_to_data_path on the PropPath at hand.
RenderPath ==
    /\ last.op = "path"
    /\ last' = PathLast("prop_path_to_data_path", last.prop_path,
                        prop_path_to_data_path(last.prop_path), <<>>)
    /\ UNCHANGED <<stagerVars, host_calls, ncalls, actionVars>>

\* A call of data_path_to_prop_path on the string just rendered
\* (apply_animation converts an actor's data path before it assigns the value).
ParsePath ==
    /\ last.op = "prop_path_to_data_path"
    /\ last' = PathLast("data_path_to_prop_path", last.prop_path, last.data_path,
                        data_path_to_prop_path(last.data_path))
    /\ UNCHANGED <<stagerVars, host_calls, ncalls, actionVars>>

\* int(c) of a digit character.
int(c) ==
    CASE c = "0" -> 0 [] c = "1" -> 1 [] c = "2" -> 2 [] c = "3" -> 3
      [] c = "4" -> 4 [] c = "5" -> 5 [] c = "6" -> 6 [] c = "7" -> 7
      [] c = "8" -> 8 [] c = "9" -> 9

\* s[:-3]
DropLast3(s) == SubSeq(s, 1, Len(s) - 3)

\* What keyframe_insert passes to obj.keyframe_insert, or the exception it raises.
HostKeyframeArgs(data_path, index, raised) ==
    [data_path |-> data_path, index |-> index, raised |-> raised]

\* keyframe_insert(obj, path, frame) with a str path: path[-2] raises IndexError
\* on a string shorter than two characters; a digit there is taken as the index
\* and the last three characters are cut off.
keyframe_insert_of_str(path) ==
    IF Len(path) < 2 THEN HostKeyframeArgs(<<>>, None, "IndexError")
    ELSE LET c == path[Len(path) - 1]
         IN  IF isdigit(<<c>>)
             THEN HostKeyframeArgs(DropLast3(path), int(c), "")
             ELSE HostKeyframeArgs(path, None, "")

\* keyframe_insert(obj, path, frame) with a PropPath: path[-1][-2] is looked at;
\* an IndexError there is swallowed and leaves has_last_index unbound, so that
\* the test that follows raises UnboundLocalError.
keyframe_insert_of_prop_path(path) ==
    IF path = <<>> \/ Len(path[Len(path)]) < 2
    THEN HostKeyframeArgs(<<>>, None, "UnboundLocalError")
    ELSE LET seg == path[Len(path)]
             c == seg[Len(seg) - 1]
         IN  IF isdigit(<<c>>)
             THEN HostKeyframeArgs(DropLast3(prop_path_to_data_path(path)), int(c), "")
             ELSE HostKeyframeArgs(prop_path_to_data_path(path), None, "")

\* Direct mode: set_prop_value inserts a keyframe with the string just rendered.
DirectKeyframeInsert ==
    /\ last.op = "prop_path_to_data_path"
    /\ last' = PathLast("keyframe_insert(str)", last.prop_path, last.data_path,
                        <<keyframe_insert_of_str(last.data_path)>>)
    /\ UNCHANGED <<stagerVars, host_calls, ncalls, actionVars>>

\* Stage.play inserts a keyframe with the PropPath of a staged entry; the record
\* keeps what the Direct-mode call passed to the host for the same PropPath.
PlayKeyframeInsert ==
    /\ last.op = "keyframe_insert(str)"
    /\ last' = PathLast("keyframe_insert(PropPath)", last.prop_path, last.data_path,
                        Append(last.ret, keyframe_insert_of_prop_path(last.prop_path)))
    /\ UNCHANGED <<stagerVars, host_calls, ncalls, actionVars>>

\* Any valid PropPath is at hand.
PathInit ==
    /\ StagerInit
    /\ NoBaseAnimation
    /\ host_calls = <<>>
    /\ ncalls = 0
    /\ \E p \in ValidPropPaths : last = PathLast("path", p, <<>>, <<>>)

PathNext == RenderPath \/ ParsePath \/ DirectKeyframeInsert \/ PlayKeyframeInsert

SpecPath == PathInit /\ [][PathNext]_vars

(***************************************************************************)
(* Claims about the PropPath addressor, checked under SpecPath             *)
(***************************************************************************)

\* C11: for every valid PropPath p, rendering p with prop_path_to_data_path and
\* parsing the string back with data_path_to_prop_path yields p again.
C11_RoundTrip ==
    last.op = "data_path_to_prop_path" => last.ret = last.prop_path

\* C11 witness: a round trip of a path that starts with a bracket segment and
\* holds a numeric index, a string key and two plain segments.
C11_Witness ==
    /\ last.op = "data_path_to_prop_path"
    /\ Len(last.prop_path) = MaxSegments
    /\ \E i, j, k \in 1..Len(last.prop_path) :
           /\ i < j /\ j < k
           /\ last.prop_path[i] \in PlainSegments
           /\ last.prop_path[j] = <<"[", "K", "]">>
           /\ last.prop_path[k] \in PlainSegments
    /\ last.ret = last.prop_path

\* C12: prop_path_to_data_path renders the segments in order, a bracket segment
\* whose key is only digits as [key], any other bracket segment as ["key"] and a
\* plain segment as itself, with one '.' right before a plain segment exactly when
\* an earlier segment is plain; so the string holds one '.' less than the path
\* has plain segments (none for no plain segment) and no '.' stands before a '['.
C12_RenderedForm ==
    last.op = "prop_path_to_data_path" =>
        LET p == last.prop_path
            s == last.data_path
            IsPlain(i) == p[i][1] # "["
            Key(i) == SubSeq(p[i], 2, Len(p[i]) - 1)
            OnlyDigits(k) == k # <<>> /\ \A c \in 1..Len(k) : k[c] \in Digits
            Piece(i) ==
                IF IsPlain(i)
                THEN (IF \E h \in 1..(i - 1) : IsPlain(h) THEN <<".">> ELSE <<>>) \o p[i]
                ELSE IF OnlyDigits(Key(i))
                     THEN <<"[">> \o Key(i) \o <<"]">>
                     ELSE <<"[", "\"">> \o Key(i) \o <<"\"", "]">>
            RECURSIVE Joined(_)
            Joined(i) == IF i = 0 THEN <<>> ELSE Joined(i - 1) \o Piece(i)
            plains == Cardinality({i \in 1..Len(p) : IsPlain(i)})
            dots == Cardinality({c \in 1..Len(s) : s[c] = "."})
        IN  /\ s = Joined(Len(p))
            /\ dots = (IF plains = 0 THEN 0 ELSE plains - 1)
            /\ \A c \in 1..(Len(s) - 1) : ~(s[c] = "." /\ s[c + 1] = "[")
            /\ prop_path_to_data_path(<< <<"x">>, <<"[", "K", "]">>, <<"a", "b">> >>)
                   = <<"x", "[", "\"", "K", "\"", "]", ".", "a", "b">>

\* C12 witness: the path ["[37]", "x", "ab"] was rendered as [37]x.ab .
C12_Witness ==
    /\ last.op = "prop_path_to_data_path"
    /\ last.prop_path = << <<"[", "3", "7", "]">>, <<"x">>, <<"a", "b">> >>
    /\ last.data_path = <<"[", "3", "7", "]", "x", ".", "a", "b">>


\* C27: for every PropPath p, keyframe_insert called with p and keyframe_insert
\* called with the string rendered from p pass the same data path and the same
\* index to the host, and an index is split off only when the last segment of p
\* is a bracketed single-digit index.
C27_SameChannelDirectAndStaged ==
    last.op = "keyframe_insert(PropPath)" =>
        LET direct == last.ret[1]
            staged == last.ret[2]
            p == last.prop_path
            single_digit_index ==
                /\ p # <<>>
                /\ Len(p[Len(p)]) = 3
                /\ startswith_bracket(p[Len(p)])
                /\ isdigit(Inner(p[Len(p)]))
        IN  /\ direct = staged
            /\ staged.raised = ""
            /\ staged.index # None => single_digit_index

(***************************************************************************)
(* Further claims about apply_animation, checked under SpecRetarget        *)
(***************************************************************************)

\* C24: within one apply_animation call with end > start, the points of each
\* actor are replayed in ascending base-time order and the times at which their
\* keyframes are inserted never decrease from one insertion to the next.
C24_InsertTimesAscending ==
    (last.op = "apply_animation" /\ last.raised = "" /\ last.end > last.start) =>
        \A c1, c2 \in 1..Len(host_calls) :
            (c1 < c2 /\ host_calls[c1].actor = host_calls[c2].actor) =>
                /\ host_calls[c1].base.co[1] <= host_calls[c2].base.co[1]
                /\ host_calls[c1].time <= host_calls[c2].time

\* C24 witness: an actor's three points at growing base times were inserted at
\* three growing times of a target window that is not the base window.
C24_Witness ==
    /\ last.op = "apply_animation"
    /\ last.raised = ""
    /\ last.end > last.start
    /\ \E c1, c2, c3 \in 1..Len(host_calls) :
           /\ c1 < c2 /\ c2 < c3
           /\ host_calls[c1].actor = host_calls[c2].actor
           /\ host_calls[c2].actor = host_calls[c3].actor
           /\ host_calls[c1].base.co[1] < host_calls[c2].base.co[1]
           /\ host_calls[c2].base.co[1] < host_calls[c3].base.co[1]
           /\ host_calls[c1].time < host_calls[c2].time
           /\ host_calls[c2].time < host_calls[c3].time
           /\ host_calls[c1].time # host_calls[c1].base.co[1]

\* C28 as stated: with end > start, two points of one actor with different base
\* times are inserted at different times, and after the call on a clone without
\* fcurves a target channel whose replayed base points have different times
\* holds as many keyframes as points were replayed on it.
C28_BasePointsKeptDistinct ==
    (last.op = "apply_animation" /\ last.raised = "" /\ last.end > last.start) =>
        /\ \A c1, c2 \in 1..Len(host_calls) :
               (/\ host_calls[c1].actor = host_calls[c2].actor
                /\ host_calls[c1].base.co[1] # host_calls[c2].base.co[1]) =>
                   host_calls[c1].time # host_calls[c2].time
        /\ \A f \in 1..Len(target.fcurves) :
               LET on == {c \in 1..Len(host_calls) : host_calls[c].fcurve = f}
               IN  (\A c1, c2 \in on :
                        c1 # c2 => host_calls[c1].base.co[1] # host_calls[c2].base.co[1])
                       => Cardinality(target.fcurves[f].keyframe_points)
                              = Cardinality(on)

\* C28, amended: with end > start, two points of one actor whose mapped times
\* start + (t - base_start) * scale lie more than one frame apart are inserted at
\* different times; after the call on a clone without fcurves each target channel
\* holds one keyframe per distinct insertion time, and the keyframe conformed for
\* a base point is the one at that point's insertion time, holding its value.
C28_DistinctWhenOverAFrameApart ==
    (last.op = "apply_animation" /\ last.raised = "" /\ last.end > last.start) =>
        LET a == actions[last.action]
            d == a.base_end_time - a.base_start_time
        IN  /\ \A c1, c2 \in 1..Len(host_calls) :
                   (/\ host_calls[c1].actor = host_calls[c2].actor
                    /\ (host_calls[c2].base.co[1] - host_calls[c1].base.co[1])
                           * (last.end - last.start) > d) =>
                       host_calls[c1].time < host_calls[c2].time
            /\ \A f \in 1..Len(target.fcurves) :
                   LET times == {host_calls[c].time :
                                    c \in {i \in 1..Len(host_calls) :
                                              host_calls[i].fcurve = f}}
                   IN  /\ Cardinality(target.fcurves[f].keyframe_points)
                              = Cardinality(times)
                       /\ {k.co[1] : k \in target.fcurves[f].keyframe_points} = times
            /\ \A c \in 1..Len(host_calls) :
                   /\ host_calls[c].new.co[1] = host_calls[c].time
                   /\ host_calls[c].new.co[2] = host_calls[c].base.co[2]

\* C28 witness: two points of one actor at different base times were inserted at
\* the same time of a shorter target window, and a third one later; the channel
\* holds two keyframes.
C28_Witness ==
    /\ last.op = "apply_animation"
    /\ last.raised = ""
    /\ last.end > last.start
    /\ \E c1, c2, c3 \in 1..Len(host_calls) :
           /\ host_calls[c1].actor = host_calls[c2].actor
           /\ host_calls[c2].actor = host_calls[c3].actor
           /\ host_calls[c1].base.co[1] < host_calls[c2].base.co[1]
           /\ host_calls[c1].time = host_calls[c2].time
           /\ host_calls[c2].time < host_calls[c3].time
           /\ Cardinality(target.fcurves[host_calls[c1].fcurve].keyframe_points) = 2

\* C29: for every action generate_actions returned and every actor of it,
\* apply_animation replays at least ActorThreshold points of the actor's base
\* fcurve, among them every point on base_start_time and on base_end_time; and a
\* window whose end is the next window's start counts a point on that shared
\* boundary as the next window does: an fcurve with such a point is an actor of
\* either window exactly when it has one more point in that window.
C29_WindowsAgree ==
    /\ (last.op = "apply_animation" /\ last.raised = "") =>
           LET a == actions[last.action]
           IN  \A x \in 1..Len(a.actors) :
                   LET kps == base_fcurves[a.actors[x].base_fcurve].keyframe_points
                       replayed == {c \in 1..Len(host_calls) : host_calls[c].actor = x}
                   IN  /\ Cardinality(replayed) >= ActorThreshold
                       /\ \A i \in 1..Len(kps) :
                              kps[i].co[1] \in {a.base_start_time, a.base_end_time} =>
                                  \E c \in replayed : host_calls[c].base = kps[i]
    /\ phase \in {"constructed", "applied"} =>
           \A n \in 1..(Len(actions) - 1), j \in 1..Len(base_fcurves) :
               LET b == actions[n].base_end_time
                   kps == base_fcurves[j].keyframe_points
                   ActorOf(w) == \E x \in 1..Len(actions[w].actors) :
                                     actions[w].actors[x].base_fcurve = j
                   Others(w) == {i \in 1..Len(kps) :
                                    /\ kps[i].co[1] # b
                                    /\ actions[w].base_start_time <= kps[i].co[1]
                                    /\ kps[i].co[1] <= actions[w].base_end_time}
                   OnBoundary == {i \in 1..Len(kps) : kps[i].co[1] = b}
               IN  (b = actions[n + 1].base_start_time /\ Cardinality(OnBoundary) = 1) =>
                       /\ ActorOf(n) <=> Others(n) # {}
                       /\ ActorOf(n + 1) <=> Others(n + 1) # {}

\* C29 witness: the applied action is followed by another one; an actor of both
\* has a point on their shared boundary, and that point was replayed.
C29_Witness ==
    /\ last.op = "apply_animation"
    /\ last.raised = ""
    /\ last.action < Len(actions)
    /\ LET a == actions[last.action]
           nxt == actions[last.action + 1]
       IN  /\ a.base_end_time = nxt.base_start_time
           /\ \E x \in 1..Len(a.actors), y \in 1..Len(nxt.actors), c \in 1..Len(host_calls) :
                  /\ a.actors[x].base_fcurve = nxt.actors[y].base_fcurve
                  /\ host_calls[c].actor = x
                  /\ host_calls[c].base.co[1] = a.base_end_time

(***************************************************************************)
(* Claims about repeated apply_animation calls, checked under SpecReplay   *)
(***************************************************************************)

\* C22: an apply_animation call leaves the actions (their base_start_time,
\* base_end_time and actors) and the keyframe points of every base fcurve as
\* they were, and a call that repeats the call before it (same action, same
\* target window) leaves the target's fcurves and values as that call left them.
C22_ApplyReadsOnly ==
    [][(phase' # phase /\ phase' \in {"applied", "reapplied"}) =>
          /\ actions' = actions
          /\ base_fcurves' = base_fcurves
          /\ (/\ phase = "applied"
              /\ last'.action = last.action
              /\ last'.start = last.start
              /\ last'.end = last.end) => target' = target]_vars

\* C22 witness: the same action was applied twice to the same target window, and
\* the target holds keyframes at times that are not their base times.
C22_Witness ==
    /\ phase = "reapplied"
    /\ last.raised = ""
    /\ last.end > last.start
    /\ Len(host_calls) >= 3
    /\ \E f \in 1..Len(target.fcurves) :
           Cardinality(target.fcurves[f].keyframe_points) >= 2
    /\ \A c \in 1..Len(host_calls) :
           /\ \E k \in target.fcurves[host_calls[c].fcurve].keyframe_points :
                  k.co[1] = host_calls[c].time
    /\ \E c \in 1..Len(host_calls) : host_calls[c].time # host_calls[c].base.co[1]
    /\ actions[last.action].base_end_time - actions[last.action].base_start_time
           # last.end - last.start

\* C25: an apply_animation call leaves at most one target fcurve per (data path,
\* array index); the fcurves that existed before the call keep their place, their
\* data path and index and every keyframe the call did not insert anew at the
\* same time, and an fcurve is added only for an actor whose channel did not
\* exist.
C25_ChannelFoundOrCreatedOnce ==
    [][(phase' # phase /\ phase' \in {"applied", "reapplied"}) =>
          LET old == target.fcurves
              new == target'.fcurves
          IN  /\ \A f, g \in 1..Len(new) :
                     (/\ new[f].data_path = new[g].data_path
                      /\ new[f].array_index = new[g].array_index) => f = g
              /\ Len(new) >= Len(old)
              /\ \A f \in 1..Len(old) :
                     /\ new[f].data_path = old[f].data_path
                     /\ new[f].array_index = old[f].array_index
                     /\ \A k \in old[f].keyframe_points :
                            \/ k \in new[f].keyframe_points
                            \/ \E c \in 1..Len(host_calls') :
                                   /\ host_calls'[c].fcurve = f
                                   /\ host_calls'[c].time = k.co[1]
              /\ \A f \in (Len(old) + 1)..Len(new) :
                     \E x \in 1..Len(actions[last'.action].actors) :
                         actions[last'.action].actors[x].data_path
                             = <<new[f].data_path, new[f].array_index>>]_vars

\* C25 witness: a second call replayed points on an fcurve the first call had
\* created; the fcurve holds a keyframe of the first call next to those of the
\* second, and the target has one fcurve per channel.
C25_Witness ==
    /\ phase = "reapplied"
    /\ last.raised = ""
    /\ Len(target.fcurves) = 2
    /\ \E f \in 1..Len(target.fcurves) :
           /\ \E c \in 1..Len(host_calls) : host_calls[c].fcurve = f
           /\ \E k \in target.fcurves[f].keyframe_points :
                  \A c \in 1..Len(host_calls) :
                      host_calls[c].fcurve = f => host_calls[c].time # k.co[1]

(***************************************************************************)
(* Prefix registry (core/utils.py): reserve_original_prefix, release_prefix *)
(***************************************************************************)
\* The registry is a text; a line body is a sequence of one-character strings.
\* The two comment lines the text is created with are kept by their first
\* characters, followed by the empty line that ends the header.
HeaderLines == << <<"#", " ", "L">>, <<"#", " ", "D">>, <<>> >>

\* The base prefixes of the calls: a stage's, one that ends in a digit, and one
\* nested under the name S00.
BasePrefixes == {<<"S">>, <<"S", "0">>, <<"S", "0", "0", ".">>}

DecimalDigits == <<"0", "1", "2", "3", "4", "5", "6", "7", "8", "9">>

RECURSIVE str(_)
\* str(counter) of a natural number
str(n) ==
    IF n < 10 THEN <<DecimalDigits[n + 1]>>
    ELSE str(n \div 10) \o <<DecimalDigits[(n % 10) + 1]>>

RECURSIVE zfill(_, _)
\* s.zfill(width): zeros are put in front until the string is `width` long.
zfill(s, w) == IF Len(s) >= w THEN s ELSE zfill(<<"0">> \o s, w)

\* line.startswith(prefix)
startswith(line, prefix) ==
    Len(line) >= Len(prefix) /\ SubSeq(line, 1, Len(prefix)) = prefix

\* Mutant of is_prefix_reserved: a line counts only if it is the prefix itself.
IsLineOfText(lines, prefix) == \E i \in 1..Len(lines) : lines[i] = prefix

\* is_prefix_reserved(prefix): any line of the text starts with prefix.
is_prefix_reserved(lines, prefix) ==
    \E i \in 1..Len(lines) : startswith(lines[i], prefix)

RECURSIVE OriginalPrefix(_, _, _)
\* reserve_original_prefix, the loop: the first base_prefix + str(counter).zfill(2),
\* counting up from `counter`, that is not reserved.
OriginalPrefix(lines, base_prefix, counter) ==
    LET prefix == base_prefix \o zfill(str(counter), 2)
    IN  IF is_prefix_reserved(lines, prefix)
        THEN OriginalPrefix(lines, base_prefix, counter + 1)
        ELSE prefix

\* The lines of the text reserve_original_prefix works on: the header if the
\* text had to be created.
OpenedLines(text) == IF text.exists THEN text.lines ELSE HeaderLines

RECURSIVE KeptLines(_, _)
\* release_prefix, the loop over body.split("\n"): empty lines and lines that
\* start with prefix are dropped.
KeptLines(lines, prefix) ==
    IF lines = <<>> THEN <<>>
    ELSE (IF Head(lines) = <<>> \/ startswith(Head(lines), prefix)
          THEN <<>> ELSE <<Head(lines)>>)
         \o KeptLines(Tail(lines), prefix)

PrefixLast(op, arg, ret) == [op |-> op, arg |-> arg, ret |-> ret]

\* The names the text holds: its lines that are neither empty nor comments.
ReservedNames(text) ==
    {text.lines[i] : i \in {j \in 1..Len(text.lines) :
                               text.lines[j] # <<>> /\ text.lines[j][1] # "#"}}

\* reserve_original_prefix(base_prefix)
ReserveOriginalPrefix(base_prefix) ==
    LET lines == OpenedLines(prefix_text)
        prefix == OriginalPrefix(lines, base_prefix, 0)
    IN  /\ ncalls < MaxCalls
        /\ ncalls' = ncalls + 1
        /\ prefix_text' = [exists |-> TRUE, lines |-> Append(lines, prefix)]
        /\ last' = PrefixLast("reserve_original_prefix", base_prefix, prefix)
        /\ UNCHANGED <<stagerVars, host_calls, base_fcurves, width, actions, target,
                       phase>>

\* release_prefix(prefix)
ReleasePrefix(prefix) ==
    /\ ncalls < MaxCalls
    /\ ncalls' = ncalls + 1
    /\ prefix_text' = IF prefix_text.exists
                      THEN [exists |-> TRUE, lines |-> KeptLines(prefix_text.lines, prefix)]
                      ELSE prefix_text
    /\ last' = PrefixLast("release_prefix", prefix, <<>>)
    /\ UNCHANGED <<stagerVars, host_calls, base_fcurves, width, actions, target,
                   phase>>

\* The text after ten reservations of base prefix "S": S00 .. S09.
TenNames ==
    [exists |-> TRUE,
     lines |-> HeaderLines \o [i \in 1..10 |-> <<"S", "0", DecimalDigits[i]>>]]

\* A blend file without the registry text, or with the ten names.
PrefixInit ==
    /\ StagerInit
    /\ host_calls = <<>>
    /\ ncalls = 0
    /\ base_fcurves = <<>>
    /\ width = 1
    /\ actions = <<>>
    /\ target = [has_action |-> FALSE, fcurves |-> <<>>, values |-> <<>>]
    /\ phase = "constructed"
    /\ prefix_text \in {NoPrefixText, TenNames}
    /\ last = PrefixLast("init", <<>>, <<>>)

\* A prefix that is released is a name of the text or a base prefix.
PrefixNext ==
    \/ \E base_prefix \in BasePrefixes : ReserveOriginalPrefix(base_prefix)
    \/ \E prefix \in ReservedNames(prefix_text) \cup BasePrefixes : ReleasePrefix(prefix)

SpecPrefix == PrefixInit /\ [][PrefixNext]_vars

\* C23: the name reserve_original_prefix returns is different from, and is not a
\* prefix of, every name the registry held at the call; it is base_prefix followed
\* by a counter written with two digits (a zero in front of a counter below 10),
\* the smallest counter whose name is not a prefix of a registered name; the call
\* adds the name to the registry and keeps the names that were there.
C23_ReservedNameIsOriginal ==
    [][(ncalls' = ncalls + 1 /\ last'.op = "reserve_original_prefix") =>
          LET names == ReservedNames(prefix_text)
              ret == last'.ret
              base == last'.arg
              Name(c) == base \o <<DecimalDigits[(c \div 10) + 1],
                                   DecimalDigits[(c % 10) + 1]>>
              Taken(c) == \E name \in names :
                              /\ Len(name) >= Len(Name(c))
                              /\ \A i \in 1..Len(Name(c)) : name[i] = Name(c)[i]
          IN  /\ \A name \in names :
                     /\ name # ret
                     /\ ~(/\ Len(name) >= Len(ret)
                          /\ \A i \in 1..Len(ret) : name[i] = ret[i])
              /\ \E c \in 0..99 :
                     /\ ret = Name(c)
                     /\ \A b \in 0..(c - 1) : Taken(b)
              /\ ReservedNames(prefix_text') = names \cup {ret}]_vars

\* C23 witness: with S000 registered and S00 not, a call for base prefix S
\* passed over counter 0 and returned S01.
C23_Witness ==
    /\ last.op = "reserve_original_prefix"
    /\ last.arg = <<"S">>
    /\ last.ret = <<"S", "0", "1">>
    /\ <<"S", "0", "0", "0">> \in ReservedNames(prefix_text)
    /\ <<"S", "0", "0">> \notin ReservedNames(prefix_text)
    /\ last.ret \in ReservedNames(prefix_text)

=========================================================================
